---- MODULE Spec2Model ----
(***************************************************************************)
(* A model of the CVD simulator's batch coordinator                        *)
(* (cvd_simulator/core/simulator.py) and of its security validator         *)
(* (cvd_simulator/utils/validators.py).                                    *)
(*                                                                         *)
(* Spec          the three batch entry points process_batch,               *)
(*               process_batch_parallel and process_batch_chunked, run on  *)
(*               one input list against one environment                    *)
(* SpecValidate  SecurityValidator.validate_image on one file              *)
(* SpecPath      SecurityValidator.sanitize_output_path on one name        *)
(* SpecWorkers   the worker count of AsyncCVDSimulator                     *)
(* SpecConfig    SimulationConfig(...) and the encoder options OutputWriter *)
(*               derives from the instance                                 *)
(* SpecCli       the command line entry point main and the preset table    *)
(* SpecLive      process_batch_parallel called directly, with workers that *)
(*               finish and a coordinator that goes on                     *)
(* SpecMetadata  export_metadata and load_metadata on one sidecar file     *)
(* SpecImage     ImageLoader.load, CVDSimulator.simulate and process_image *)
(*               called directly on one image file                         *)
(***************************************************************************)
EXTENDS Integers, Sequences, FiniteSets, TLC

\* ------------------------------------------------------------------ bounds
MaxImages == 2
MaxChunk == 2
MaxWorkers == 2
MaxClock == 1

\* ------------------------------------------------------------- small helpers
Min(a, b) == IF a < b THEN a ELSE b
Max(a, b) == IF a > b THEN a ELSE b
Range(s) == {s[i] : i \in DOMAIN s}
Distinct(s) == \A i, j \in DOMAIN s : s[i] = s[j] => i = j
SeqsUpTo(S, n) == UNION {[1..k -> S] : k \in 0..n}

\* Python's None, as a result entry and as an optional argument
NoneVal == "None"

\* ---------------------------------------------------------------- state
VARIABLES
    image_paths,        \* the input list, the same for every call
    fate,               \* fate[i]: whether the environment lets unit i succeed
    cvd_type,           \* the cvd_type argument (NoneVal: all types)
    chunk_size,         \* the chunk_size argument
    max_workers,        \* self.max_workers
    progress_callback,  \* whether a progress callback is supplied
    now,                \* the time the clock last showed to a unit of work
    mode,               \* the entry point running, or run last
    pc,                 \* "idle", "seq", "chunk", "collect"
    idx,                \* process_batch: position in image_paths
    ci,                 \* process_batch_chunked: index of the current chunk
    cur,                \* <<lo, hi>>: the slice given to process_batch_parallel
    futures,            \* the futures of the current pool
    results, failed, success_count, completed,
    all_results,        \* process_batch_chunked's merged mapping
    calls,              \* the calls made to the progress callback
    nwrites,            \* nwrites[p]: assignments to results[p] in this run
    ret                 \* ret[m]: how entry point m ended

bvars == <<image_paths, fate, cvd_type, chunk_size, max_workers, progress_callback,
           now, mode, pc, idx, ci, cur, futures, results, failed, success_count,
           completed, all_results, calls, nwrites, ret>>

\* what a behaviour fixes for all its calls, and the arguments of one call
inputs == <<image_paths, fate, cvd_type, max_workers>>
args == <<chunk_size, progress_callback>>

VARIABLES
    v_args,     \* the arguments given to SecurityValidator(...)
    v_self,     \* the validator constructed, or the error of its constructor
    v_file,     \* what the file system and PIL report about the path
    v_result    \* "pending", then what validate_image did

vvars == <<v_args, v_self, v_file, v_result>>

VARIABLES
    s_dir,      \* the output_dir argument
    s_name,     \* the filename argument
    s_links,    \* the symbolic links of the file system
    s_out,      \* [kind |-> "pending"], then what sanitize_output_path did
    s_safe      \* what the calls of sanitize_filename on s_name returned

pvars == <<s_dir, s_name, s_links, s_out, s_safe>>

VARIABLES
    w_arg,      \* the max_workers argument of AsyncCVDSimulator(...)
    w_config,   \* config.max_workers
    w_cpus,     \* cpu_count()
    w_total,    \* len(image_paths)
    w_mem,      \* the memory-based limit get_optimal_workers derives
    w_self,     \* self.max_workers, once constructed
    w_pool,     \* the pool process_batch_parallel created
    w_optimal   \* what get_optimal_workers returned

wvars == <<w_arg, w_config, w_cpus, w_total, w_mem, w_self, w_pool, w_optimal>>

VARIABLES
    c_args,     \* the field values given to SimulationConfig(...)
    c_config,   \* [kind |-> "pending"], then the instance or the error raised
    c_settings, \* what OutputWriter._get_format_settings returned
    c_dict,     \* the dictionary handed to the workers
    c_worker    \* what from_dict gave a worker

cvars == <<c_args, c_config, c_settings, c_dict, c_worker>>

VARIABLES
    PRESETS,    \* presets.PRESETS: the config object of each PresetType
    l_parsed,   \* the parsed arguments of the current or last call of main
    l_pc,       \* "idle", "config", "simulator", "process"
    l_config,   \* the config of the run: an object of its own, or the
                \* object the preset table holds
    l_idx,      \* position in image_paths
    l_success,  \* success_count
    l_outcomes, \* what process_single_image returned for each path so far
    l_exit,     \* how the last call of main ended
    l_applied,  \* the config apply_preset returned last
    l_profiler, \* profiling._global_profiler: _enabled, and the operations
                \* that have a TimingReport in _timings
    l_timed     \* the operations the current or last call of main recorded

lvars == <<PRESETS, l_parsed, l_pc, l_config, l_idx, l_success, l_outcomes, l_exit,
           l_applied,
          l_profiler, l_timed>>

VARIABLES
    m_record,   \* the SimulationMetadata given to export_metadata
    m_file,     \* the JSON document in the sidecar file, once written
    m_loaded    \* what load_metadata returned

mvars == <<m_record, m_file, m_loaded>>

VARIABLES
    i_file,     \* the image file at the path
    i_fault,    \* the step at which the environment makes the call fail
    i_config,   \* the configuration of the simulator
    i_image,    \* what ImageLoader.load gave: an image or an exception
    i_result,   \* what CVDSimulator.simulate gave on the loaded image
    i_direct,   \* what CVDSimulator.process_image, called directly, gave
    i_trace     \* what that call did with the file, in order

ivars == <<i_file, i_fault, i_config, i_image, i_result, i_direct, i_trace>>

vars == <<bvars, vvars, pvars, wvars, cvars, lvars, mvars, ivars>>

\* what the actions of one specification leave alone
nonbatch == <<vvars, pvars, wvars, cvars, lvars, mvars, ivars>>
nonvalidate == <<bvars, pvars, wvars, cvars, lvars, mvars, ivars>>
nonpath == <<bvars, vvars, wvars, cvars, lvars, mvars, ivars>>
nonworkers == <<bvars, vvars, pvars, cvars, lvars, mvars, ivars>>
nonconfig == <<bvars, vvars, pvars, wvars, lvars, mvars, ivars>>
noncli == <<bvars, vvars, pvars, wvars, cvars, mvars, ivars>>
nonmetadata == <<bvars, vvars, pvars, wvars, cvars, lvars, ivars>>
nonimage == <<bvars, vvars, pvars, wvars, cvars, lvars, mvars>>

\* ------------------------------------------------------------------- enums
\* enums.CVDType, in declaration order (the order `for cvd_type in CVDType` visits)
CVDType == <<"PROTAN", "DEUTAN", "TRITAN", "GRAYSCALE">>

CVDTypeValue(t) ==
    CASE t = "PROTAN" -> "protan"
      [] t = "DEUTAN" -> "deutan"
      [] t = "TRITAN" -> "tritan"
      [] t = "GRAYSCALE" -> "bw"

CVDTypeIndex(t) == CHOOSE k \in DOMAIN CVDType : CVDType[k] = t

\* ------------------------------------------------------ SecurityValidator
\* PIL format names the validator accepts by default
ALLOWED_FORMATS == {"jpeg", "png", "gif", "bmp", "tiff", "webp"}

\* the defaults of SecurityValidator.__init__
DefaultMaxFileSize == 100 * 1024 * 1024
DefaultMaxDimension == 10000

\* SecurityValidator.__init__: `allowed_formats or self.ALLOWED_FORMATS`
SecurityValidator(max_file_size, max_dimension, allowed_formats) ==
    [max_file_size |-> max_file_size,
     max_dimension |-> max_dimension,
     allowed_formats |-> IF allowed_formats = {} THEN ALLOWED_FORMATS
                         ELSE allowed_formats]

\* _get_image_format: the format PIL sniffs from the content, lowercased, or
\* None when PIL cannot open the file or reports no format
GetImageFormat(f) == IF f.opens THEN f.format ELSE NoneVal

\* the body of the last try block of validate_image: verify, reopen, compare
\* the dimensions; "Exception" is any error PIL raises
VerifyAndMeasure(self, f) ==
    IF ~f.opens \/ ~f.verifies THEN "Exception"
    ELSE IF f.width > self.max_dimension \/ f.height > self.max_dimension
         THEN "DIMENSIONS_TOO_LARGE"
    ELSE "OK"

\* the handlers of that block: a SecurityError is re-raised as it is, any
\* other exception becomes CORRUPTED_FILE
HandleVerify(outcome) ==
    IF outcome = "Exception" THEN "CORRUPTED_FILE" ELSE outcome

\* validate_image without its `except SecurityError: raise` clause
validate_image_NoReraise(self, f) ==
    IF ~f.exists THEN "FILE_NOT_FOUND"
    ELSE IF ~f.is_file THEN "NOT_A_FILE"
    ELSE IF f.size > self.max_file_size THEN "FILE_TOO_LARGE"
    ELSE IF f.size = 0 THEN "EMPTY_FILE"
    ELSE IF GetImageFormat(f) = NoneVal THEN "UNKNOWN_FORMAT"
    ELSE IF GetImageFormat(f) \notin self.allowed_formats THEN "DISALLOWED_FORMAT"
    ELSE IF VerifyAndMeasure(self, f) # "OK" THEN "CORRUPTED_FILE"
    ELSE "OK"

\* SecurityValidator.validate_image: "OK" when nothing is raised, else the
\* violation_type of the SecurityError raised.  A file f is what the file
\* system and PIL report about the path:
\*   exists, is_file, size (st_size), opens (Image.open succeeds),
\*   format (img.format lowercased, NoneVal when PIL reports none),
\*   verifies (img.verify() succeeds), width, height (img2.size)
validate_image(self, f) ==
    IF ~f.exists THEN "FILE_NOT_FOUND"
    ELSE IF ~f.is_file THEN "NOT_A_FILE"
    ELSE IF f.size > self.max_file_size THEN "FILE_TOO_LARGE"
    ELSE IF f.size = 0 THEN "EMPTY_FILE"
    ELSE IF GetImageFormat(f) = NoneVal THEN "UNKNOWN_FORMAT"
    ELSE IF GetImageFormat(f) \notin self.allowed_formats THEN "DISALLOWED_FORMAT"
    ELSE HandleVerify(VerifyAndMeasure(self, f))

\* ---------------------------------------------------------- unit of work
\* The environment of one unit of work: the file found at the path and the
\* step, if any, at which the environment makes the unit fail.
GoodFile ==
    [exists |-> TRUE, is_file |-> TRUE, size |-> 1, opens |-> TRUE,
     format |-> "png", verifies |-> TRUE, width |-> 1, height |-> 1,
     mode |-> "RGB"]
MissingFile == [GoodFile EXCEPT !.exists = FALSE]
WideFile == [GoodFile EXCEPT !.width = DefaultMaxDimension + 1]
BatchFiles == {GoodFile, MissingFile, WideFile}

NoFault == [step |-> "none", k |-> 0]
Faults ==
    {NoFault, [step |-> "config", k |-> 0], [step |-> "open", k |-> 0]}
    \cup {[step |-> s, k |-> k] : s \in {"simulate", "save"}, k \in DOMAIN CVDType}

\* OutputWriter._generate_output_path: the file named
\* "{name_base}_{timestamp}.{ext}" under the output directory
generate_output_path(type, timestamp) ==
    [name_base |-> CVDTypeValue(type), timestamp |-> timestamp]

\* exceptions, by class and attributes
SecurityError(violation_type) ==
    [kind |-> "SecurityError", violation_type |-> violation_type]
ImageProcessingError(original_error) ==
    [kind |-> "ImageProcessingError", original_error |-> original_error]
OSError == [kind |-> "OSError"]
CVDSimulatorError == [kind |-> "CVDSimulatorError"]

\* a PIL image: its size and mode
Image(width, height, pil_mode) ==
    [kind |-> "Image", width |-> width, height |-> height, mode |-> pil_mode]

\* Image.convert
Convert(image, pil_mode) == [image EXCEPT !.mode = pil_mode]

\* the try block of ImageLoader.load: validate with the loader's own default
\* validator, open, convert to RGB; what it raises or returns
LoadBody(f, fault) ==
    LET v == validate_image(SecurityValidator(DefaultMaxFileSize, DefaultMaxDimension, {}), f)
    IN  IF v # "OK" THEN SecurityError(v)
        ELSE IF fault.step = "open" THEN OSError
        ELSE LET image == Image(f.width, f.height, f.mode)
             IN  IF image.mode # "RGB" THEN Convert(image, "RGB") ELSE image

\* the except clauses of ImageLoader.load: an ImageProcessingError is raised
\* again as it is, any other exception is wrapped in an ImageProcessingError
ImageLoaderLoad(f, fault) ==
    LET r == LoadBody(f, fault)
    IN  IF r.kind \in {"Image", "ImageProcessingError"} THEN r
        ELSE ImageProcessingError(r)

\* what ImageLoader.load does for its caller: raises, with the violation the
\* validator found if any, or returns the image
LoadOutcome(f, fault) ==
    LET r == ImageLoaderLoad(f, fault)
    IN  IF r.kind = "Image" THEN [raised |-> FALSE, violation |-> NoneVal, image |-> r]
        ELSE [raised |-> TRUE,
              violation |-> IF r.original_error.kind = "SecurityError"
                            THEN r.original_error.violation_type ELSE NoneVal,
              error |-> r]

\* image files of every mode, some of them refused by the validator
ImageFiles ==
    [exists : BOOLEAN, is_file : {TRUE}, size : {0, 1}, opens : {TRUE},
     format : {"png", "ico"}, verifies : BOOLEAN,
     width : {1, 2, DefaultMaxDimension + 1}, height : {1, 3},
     mode : {"RGB", "RGBA", "L"}]

\* LoadOutcome for every file and fault of the model
LoadTable ==
    [f \in BatchFiles \cup ImageFiles |-> [fault \in Faults |-> LoadOutcome(f, fault)]]

\* ImageLoader.load: validates with the loader's own default validator, then
\* opens; any failure is raised
load(f, fault) == LoadTable[f][fault]

\* the loop of process_image with `continue` in place of `raise`: a failing
\* type is skipped
RECURSIVE ProcessTypes_Continue(_, _, _, _)
ProcessTypes_Continue(k, res, fault, timestamp) ==
    IF k > Len(CVDType) THEN [raised |-> FALSE, results |-> res]
    ELSE IF fault.step \in {"simulate", "save"} /\ fault.k = k
         THEN ProcessTypes_Continue(k + 1, res, fault, timestamp)
    ELSE ProcessTypes_Continue(k + 1,
                      res @@ (CVDType[k] :> generate_output_path(CVDType[k], timestamp)),
                      fault, timestamp)

\* the loop of process_image over the deficiency types: a failing simulate or
\* save re-raises and leaves the loop
RECURSIVE ProcessTypes(_, _, _, _)
ProcessTypes(k, res, fault, timestamp) ==
    IF k > Len(CVDType) THEN [raised |-> FALSE, results |-> res]
    ELSE IF fault.step \in {"simulate", "save"} /\ fault.k = k
         THEN [raised |-> TRUE, results |-> res]
    ELSE ProcessTypes(k + 1,
                      res @@ (CVDType[k] :> generate_output_path(CVDType[k], timestamp)),
                      fault, timestamp)

EmptyMap == [x \in {} |-> NoneVal]

\* CVDSimulator.process_image
process_image(f, fault, timestamp) ==
    LET loaded == load(f, fault)
    IN  IF loaded.raised
        THEN [raised |-> TRUE, results |-> EmptyMap, error |-> loaded.error]
        ELSE ProcessTypes(1, EmptyMap, fault, timestamp)

\* result entries: None, a mapping of types to paths, or one path
None == [tag |-> "None"]
Dict(m) == [tag |-> "dict", val |-> m]
Single(p) == [tag |-> "path", val |-> p]

\* _process_single_image: every exception becomes None
ProcessSingleImage(f, fault, timestamp) ==
    IF fault.step = "config" THEN None
    ELSE LET r == process_image(f, fault, timestamp)
         IN  IF r.raised THEN None ELSE Dict(r.results)

\* _process_single_image_with_type: load, simulate and save one type
ProcessSingleImageWithType(f, fault, t, timestamp) ==
    IF fault.step = "config" THEN None
    ELSE IF load(f, fault).raised THEN None
    ELSE IF fault.step \in {"simulate", "save"} /\ fault.k = CVDTypeIndex(t) THEN None
    ELSE Single(generate_output_path(t, timestamp))

\* ------------------------------------------------------- batch coordinator
Paths == {"a.png", "b.png"}
Modes == {"batch", "parallel", "chunked"}

NoRet == [kind |-> "none"]
Return(m) == [kind |-> "return", value |-> m]
\* BatchProcessingError.__init__
BatchProcessingError(failed_items, sc) ==
    [kind |-> "raise", failed_items |-> failed_items, success_count |-> sc]

\* results[path] = r
Put(m, path, r) == [p \in DOMAIN m \cup {path} |-> IF p = path THEN r ELSE m[p]]
\* dict.update
Update(m, other) ==
    [p \in DOMAIN m \cup DOMAIN other |-> IF p \in DOMAIN other THEN other[p] ELSE m[p]]

\* process_batch without its raise
ReportBatch_NoRaise(res, fl, sc) == Return(res)

\* "Report results" at the end of process_batch
ReportBatch(res, fl, sc) ==
    IF fl # <<>> /\ sc = 0 THEN BatchProcessingError(fl, 0) ELSE Return(res)

\* process_batch_parallel raising on any failure, whatever success_count is
ReportParallel_AnyFailure(res, fl, sc) ==
    IF fl # <<>> THEN BatchProcessingError(fl, 0) ELSE Return(res)

\* "Report results" at the end of process_batch_parallel
ReportParallel(res, fl, sc) ==
    IF fl # <<>> /\ sc = 0 THEN BatchProcessingError(fl, 0) ELSE Return(res)

\* the slices without the last, shorter one
Chunks_Floor(total, size) ==
    [k \in 1..(total \div size) |->
        <<(k - 1) * size + 1, Min(k * size, total)>>]

\* the whole list as one slice
Chunks_OneSlice(total, size) == <<<<1, total>>>>

\* process_batch_chunked: the slices image_paths[i : i + chunk_size]
Chunks(total, size) ==
    [k \in 1..((total + size - 1) \div size) |->
        <<(k - 1) * size + 1, Min(k * size, total)>>]

\* datetime.now(), read by a unit of work: the time of the last reading or a
\* later one
Clock(last) == last..MaxClock

N == Len(image_paths)
ZeroWrites == [p \in Paths |-> 0]
Queued == [st |-> "queued", res |-> None]

BatchInit ==
    /\ image_paths \in SeqsUpTo(Paths, MaxImages)
    /\ fate \in [1..Len(image_paths) -> BOOLEAN]
    /\ cvd_type \in {NoneVal, "TRITAN"}
    /\ max_workers \in 1..MaxWorkers
    /\ chunk_size = 1
    /\ progress_callback = FALSE
    /\ now = 0
    /\ mode = "none"
    /\ pc = "idle"
    /\ idx = 0
    /\ ci = 0
    /\ cur = <<1, 0>>
    /\ futures = <<>>
    /\ results = EmptyMap
    /\ failed = <<>>
    /\ success_count = 0
    /\ completed = 0
    /\ all_results = EmptyMap
    /\ calls = <<>>
    /\ nwrites = ZeroWrites
    /\ ret = [m \in Modes |-> NoRet]

\* the batch methods going on with an empty list
EmptyInput_Never(paths) == FALSE

\* `if not image_paths:` at the head of process_batch, process_batch_parallel
\* and process_batch_chunked
EmptyInput(paths) == paths = <<>>

\* the locals process_batch and process_batch_parallel start from
FreshLocals ==
    /\ results' = EmptyMap
    /\ failed' = <<>>
    /\ success_count' = 0
    /\ completed' = 0
    /\ nwrites' = ZeroWrites

\* CVDSimulator.process_batch, up to the loop
CallBatch ==
    /\ pc = "idle" /\ mode = "none"
    /\ mode' = "batch"
    /\ FreshLocals
    /\ calls' = <<>>
    /\ idx' = 1
    /\ IF EmptyInput(image_paths)
       THEN pc' = "idle" /\ ret' = [ret EXCEPT !["batch"] = Return(EmptyMap)]
       ELSE pc' = "seq" /\ ret' = ret
    /\ UNCHANGED <<nonbatch, inputs, args, now, ci, cur, futures, all_results>>

\* what process_image can do on a path, by the time read for the file names
ProcessImageOutcomes ==
    [timestamp \in 0..MaxClock |->
        {process_image(f, fault, timestamp) :
            f \in BatchFiles, fault \in Faults \ {[step |-> "config", k |-> 0]}}]

\* one iteration of process_batch's loop
BatchStep ==
    /\ pc = "seq" /\ idx <= N
    /\ \E timestamp \in Clock(now) :
       \E r \in ProcessImageOutcomes[timestamp] :
         LET path == image_paths[idx]
         IN  /\ now' = timestamp
             /\ (~r.raised) = fate[idx]
             /\ IF ~r.raised
                THEN /\ results' = Put(results, path, Dict(r.results))
                     /\ success_count' = success_count + 1
                     /\ failed' = failed
                ELSE /\ results' = Put(results, path, None)
                     /\ failed' = Append(failed, path)
                     /\ success_count' = success_count
             /\ nwrites' = [nwrites EXCEPT ![path] = @ + 1]
    /\ idx' = idx + 1
    /\ completed' = completed + 1
    /\ UNCHANGED <<nonbatch, inputs, args, mode, pc, ci, cur, futures, all_results, calls, ret>>

\* the end of process_batch
BatchFinish ==
    /\ pc = "seq" /\ idx > N
    /\ ret' = [ret EXCEPT !["batch"] = ReportBatch(results, failed, success_count)]
    /\ pc' = "idle"
    /\ UNCHANGED <<nonbatch, inputs, args, now, mode, idx, ci, cur, futures, results, failed,
                   success_count, completed, all_results, calls, nwrites>>

\* process_batch_parallel on image_paths[lo..hi], up to the submission of one
\* unit per path to a new pool
Submit(lo, hi) ==
    /\ FreshLocals
    /\ cur' = <<lo, hi>>
    /\ futures' = [i \in lo..hi |-> Queued]

\* AsyncCVDSimulator.process_batch_parallel, called directly
CallParallel ==
    /\ pc = "idle" /\ mode = "none"
    /\ mode' = "parallel"
    /\ progress_callback' \in BOOLEAN
    /\ calls' = <<>>
    /\ IF EmptyInput(image_paths)
       THEN /\ pc' = "idle"
            /\ ret' = [ret EXCEPT !["parallel"] = Return(EmptyMap)]
            /\ FreshLocals
            /\ UNCHANGED <<cur, futures>>
       ELSE /\ pc' = "collect"
            /\ ret' = ret
            /\ Submit(1, N)
    /\ UNCHANGED <<nonbatch, inputs, chunk_size, now, idx, ci, all_results>>

\* AsyncCVDSimulator.process_batch_chunked, up to the loop over the chunks
CallChunked ==
    /\ pc = "idle" /\ mode \in {"none", "parallel"}
    /\ mode' = "chunked"
    /\ chunk_size' \in 1..MaxChunk
    /\ progress_callback' = FALSE
    /\ calls' = <<>>
    /\ futures' = <<>>
    /\ cur' = <<1, 0>>
    /\ all_results' = EmptyMap
    /\ ci' = 1
    /\ FreshLocals
    /\ IF EmptyInput(image_paths)
       THEN pc' = "idle" /\ ret' = [ret EXCEPT !["chunked"] = Return(EmptyMap)]
       ELSE pc' = "chunk" /\ ret' = ret
    /\ UNCHANGED <<nonbatch, inputs, now, idx>>

\* one iteration of the loop over the chunks: process_batch_parallel(chunk),
\* or the return after the last chunk
ChunkNext ==
    /\ pc = "chunk"
    /\ LET chunks == Chunks(N, chunk_size)
       IN  IF ci > Len(chunks)
           THEN /\ pc' = "idle"
                /\ ret' = [ret EXCEPT !["chunked"] = Return(all_results)]
                /\ UNCHANGED <<cur, futures, results, failed, success_count,
                               completed, nwrites>>
           ELSE /\ pc' = "collect"
                /\ ret' = ret
                /\ Submit(chunks[ci][1], chunks[ci][2])
    /\ UNCHANGED <<nonbatch, inputs, args, now, mode, idx, ci, all_results, calls>>

Running == {i \in DOMAIN futures : futures[i].st = "running"}
QueuedUnits == {i \in DOMAIN futures : futures[i].st = "queued"}

\* a pool worker takes the next unit of the queue, while fewer than
\* max_workers units are running
WorkerTake(i) ==
    /\ pc = "collect"
    /\ i \in QueuedUnits /\ \A j \in QueuedUnits : i <= j
    /\ Cardinality(Running) < max_workers
    /\ futures' = [futures EXCEPT ![i].st = "running"]
    /\ UNCHANGED <<nonbatch, inputs, args, now, mode, pc, idx, ci, cur, results, failed,
                   success_count, completed, all_results, calls, nwrites, ret>>

\* the worker function applied to the unit's arguments
ProcessFunc(type, f, fault, timestamp) ==
    IF type # NoneVal
    THEN ProcessSingleImageWithType(f, fault, type, timestamp)
    ELSE ProcessSingleImage(f, fault, timestamp)

\* what a unit of work can return, by the type asked for and the time read
UnitOutcomes ==
    [type \in {NoneVal} \cup Range(CVDType) |->
        [timestamp \in 0..MaxClock |->
            {ProcessFunc(type, f, fault, timestamp) : f \in BatchFiles, fault \in Faults}]]

\* a worker runs unit i to its end; the future holds what it returned
WorkerFinish(i) ==
    /\ pc = "collect"
    /\ i \in Running
    /\ \E timestamp \in Clock(now) :
       \E r \in UnitOutcomes[cvd_type][timestamp] :
         /\ now' = timestamp
         /\ (r # None) = fate[i]
         /\ futures' = [futures EXCEPT ![i] = [st |-> "done", res |-> r]]
    /\ UNCHANGED <<nonbatch, inputs, args, mode, pc, idx, ci, cur, results, failed,
                   success_count, completed, all_results, calls, nwrites, ret>>

\* the worker process of unit i dies; the future holds an exception
WorkerCrash(i) ==
    /\ pc = "collect"
    /\ i \in Running
    /\ ~fate[i]
    /\ futures' = [futures EXCEPT ![i] = [st |-> "exception", res |-> None]]
    /\ UNCHANGED <<nonbatch, inputs, args, now, mode, pc, idx, ci, cur, results, failed,
                   success_count, completed, all_results, calls, nwrites, ret>>

\* the progress callback called only for a unit that succeeded
ReportProgress_OnSuccess(log, succeeded, done, total) ==
    IF succeeded THEN Append(log, <<done, total>>) ELSE log

\* `if progress_callback: progress_callback(completed, total)`, after the
\* result of the unit is recorded
ReportProgress(log, succeeded, done, total) == Append(log, <<done, total>>)

\* the futures taken in the order of submission, each one waited for
Ready_InOrder(fs, i) ==
    /\ fs[i].st \in {"done", "exception"}
    /\ \A j \in DOMAIN fs : j < i => fs[j].st = "collected"

\* as_completed(futures) yields a future as soon as it has completed,
\* whatever the state of the others
Ready(fs, i) == fs[i].st \in {"done", "exception"}

\* one iteration of `for future in as_completed(futures)`
Collect(i) ==
    /\ pc = "collect"
    /\ i \in DOMAIN futures
    /\ Ready(futures, i)
    /\ LET path == image_paths[i]
           total == cur[2] - cur[1] + 1
       IN  /\ completed' = completed + 1
           /\ IF futures[i].st = "done" /\ futures[i].res # None
              THEN /\ results' = Put(results, path, futures[i].res)
                   /\ success_count' = success_count + 1
                   /\ failed' = failed
              ELSE /\ results' = Put(results, path, None)
                   /\ failed' = Append(failed, path)
                   /\ success_count' = success_count
           /\ nwrites' = [nwrites EXCEPT ![path] = @ + 1]
           /\ calls' = IF progress_callback
                       THEN ReportProgress(calls,
                                futures[i].st = "done" /\ futures[i].res # None,
                                completed + 1, total)
                       ELSE calls
    /\ futures' = [futures EXCEPT ![i].st = "collected"]
    /\ UNCHANGED <<nonbatch, inputs, args, now, mode, pc, idx, ci, cur, all_results, ret>>

\* the loop left as soon as one unit has been recorded
Exhausted_AfterFirst(fs) == \E i \in DOMAIN fs : fs[i].st = "collected"

\* `for future in as_completed(futures)` has no future left: every unit
\* submitted has completed and has gone through the loop body
Exhausted(fs) == \A i \in DOMAIN fs : fs[i].st = "collected"

\* the end of process_batch_parallel, and what its caller does with the outcome
Finalize ==
    /\ pc = "collect"
    /\ Exhausted(futures)
    /\ LET out == ReportParallel(results, failed, success_count)
       IN  IF mode = "parallel"
           THEN /\ ret' = [ret EXCEPT !["parallel"] = out]
                /\ pc' = "idle"
                /\ UNCHANGED <<ci, all_results>>
           ELSE IF out.kind = "raise"
           THEN /\ ret' = [ret EXCEPT !["chunked"] = out]
                /\ pc' = "idle"
                /\ UNCHANGED <<ci, all_results>>
           ELSE /\ all_results' = Update(all_results, out.value)
                /\ ci' = ci + 1
                /\ pc' = "chunk"
                /\ ret' = ret
    /\ UNCHANGED <<nonbatch, inputs, args, now, mode, idx, cur, futures, results, failed,
                   success_count, completed, calls, nwrites>>

BatchNext ==
    \/ CallBatch
    \/ BatchStep
    \/ BatchFinish
    \/ CallParallel
    \/ CallChunked
    \/ ChunkNext
    \/ \E i \in 1..(MaxImages + 1) : WorkerTake(i)
    \/ \E i \in 1..(MaxImages + 1) : WorkerFinish(i)
    \/ \E i \in 1..(MaxImages + 1) : WorkerCrash(i)
    \/ \E i \in 1..(MaxImages + 1) : Collect(i)
    \/ Finalize

\* ------------------------------------------- validate_image on one file
MaxSize == 2
MaxDim == 2

\* What can be found at a path.  A missing path has no other property, a
\* directory has a size and cannot be opened as an image, and a file PIL
\* cannot open has no format and no dimensions.
Files ==
    LET Unreadable(e, isf, sz) ==
            [exists |-> e, is_file |-> isf, size |-> sz, opens |-> FALSE,
             format |-> NoneVal, verifies |-> FALSE, width |-> 1, height |-> 1]
    IN  {Unreadable(FALSE, FALSE, 0)}
        \cup {Unreadable(TRUE, FALSE, sz) : sz \in 0..(MaxSize + 1)}
        \cup {Unreadable(TRUE, TRUE, sz) : sz \in 0..(MaxSize + 1)}
        \cup [exists : {TRUE}, is_file : {TRUE}, size : 0..(MaxSize + 1),
              opens : {TRUE}, format : {NoneVal, "png", "jpeg", "ico"},
              verifies : BOOLEAN, width : 1..(MaxDim + 1), height : 1..(MaxDim + 1)]

ValidateInit ==
    /\ v_args \in [max_file_size : 0..MaxSize, max_dimension : 0..MaxDim,
                   allowed_formats : {{}, {"png"}}]
    /\ v_file \in Files
    /\ v_self = [error |-> "unset"]
    /\ v_result = "pending"

\* SecurityValidator.__init__
Construct ==
    /\ v_self = [error |-> "unset"]
    /\ v_self' = IF v_args.max_file_size < 1 \/ v_args.max_dimension < 1
                 THEN [error |-> "ValidationError"]
                 ELSE SecurityValidator(v_args.max_file_size, v_args.max_dimension,
                                        v_args.allowed_formats)
    /\ UNCHANGED <<nonvalidate, v_args, v_file, v_result>>

\* SecurityValidator.validate_image, on a constructed validator
ValidateImage ==
    /\ "error" \notin DOMAIN v_self
    /\ v_result = "pending"
    /\ v_result' = validate_image(v_self, v_file)
    /\ UNCHANGED <<nonvalidate, v_args, v_self, v_file>>

ValidateNext == Construct \/ ValidateImage

\* ---------------------------------- sanitize_output_path on one file name
MaxLen == 3

\* Strings are sequences of characters; "NUL" stands for the null byte.
Alphabet == {"a", ".", "_", "/", "\\", "NUL", "?"}
Str(n) == UNION {[1..k -> Alphabet] : k \in 0..n}

SAFE_CHARS ==
    {"a", "b", "c", "d", "e", "f", "g", "h", "i", "j", "k", "l", "m",
     "n", "o", "p", "q", "r", "s", "t", "u", "v", "w", "x", "y", "z",
     "A", "B", "C", "D", "E", "F", "G", "H", "I", "J", "K", "L", "M",
     "N", "O", "P", "Q", "R", "S", "T", "U", "V", "W", "X", "Y", "Z",
     "0", "1", "2", "3", "4", "5", "6", "7", "8", "9", ".", "_", "-"}

DANGEROUS == << <<"/">>, <<"\\">>, <<"NUL">>, <<".", ".">> >>
UNNAMED_FILE == <<"u", "n", "n", "a", "m", "e", "d", "_", "f", "i", "l", "e">>

StartsWith(s, prefix) ==
    Len(s) >= Len(prefix) /\ SubSeq(s, 1, Len(prefix)) = prefix

\* str.replace(old, new): the occurrences of old, left to right, not overlapping
RECURSIVE StrReplace(_, _, _)
StrReplace(s, old, new) ==
    IF s = <<>> THEN <<>>
    ELSE IF StartsWith(s, old)
         THEN new \o StrReplace(SubSeq(s, Len(old) + 1, Len(s)), old, new)
    ELSE <<Head(s)>> \o StrReplace(Tail(s), old, new)

\* the loop `for char in dangerous: result = result.replace(char, '_')`
RECURSIVE ReplaceDangerous(_, _)
ReplaceDangerous(s, k) ==
    IF k > Len(DANGEROUS) THEN s
    ELSE ReplaceDangerous(StrReplace(s, DANGEROUS[k], <<"_">>), k + 1)

\* ''.join(c if c in safe_chars else '_' for c in result)
ReplaceUnsafe(s) == [i \in DOMAIN s |-> IF s[i] \in SAFE_CHARS THEN s[i] ELSE "_"]

\* the string sanitize_filename holds before `# Ensure not empty`
Replaced(filename) == ReplaceUnsafe(ReplaceDangerous(filename, 1))

\* sanitize_filename without the loop over the dangerous strings
sanitize_filename_AllowListOnly(filename) ==
    LET result == ReplaceUnsafe(filename)
    IN  IF result = <<>> \/ result = <<"_">> THEN UNNAMED_FILE ELSE result

\* SecurityValidator.sanitize_filename
sanitize_filename(filename) ==
    LET result == Replaced(filename)
    IN  IF result = <<>> \/ result = <<"_">> THEN UNNAMED_FILE ELSE result

\* A path is the sequence of its components below the root (POSIX).
\* The components of a string, split at "/"
RECURSIVE SplitAtSlash(_, _)
SplitAtSlash(s, acc) ==
    IF s = <<>> THEN <<acc>>
    ELSE IF Head(s) = "/" THEN <<acc>> \o SplitAtSlash(Tail(s), <<>>)
    ELSE SplitAtSlash(Tail(s), Append(acc, Head(s)))

\* pathlib's parse of a string: empty and "." components are dropped
PathParts(name) ==
    SelectSeq(SplitAtSlash(name, <<>>), LAMBDA c : c # <<>> /\ c # <<".">>)

\* output_dir / name: an absolute name replaces the directory
JoinPath(dir, name) ==
    IF name # <<>> /\ Head(name) = "/" THEN PathParts(name)
    ELSE dir \o PathParts(name)

\* Path.resolve(): ".." steps to the parent (the root is its own parent) and a
\* symbolic link is replaced by its target; links maps the linked paths to
\* their canonical targets
RECURSIVE Walk(_, _, _)
Walk(done, rest, links) ==
    IF rest = <<>> THEN done
    ELSE LET c == Head(rest)
             p == Append(done, c)
         IN  IF c = <<".", ".">>
             THEN Walk(IF done = <<>> THEN <<>> ELSE SubSeq(done, 1, Len(done) - 1),
                       Tail(rest), links)
             ELSE IF p \in DOMAIN links THEN Walk(links[p], Tail(rest), links)
             ELSE Walk(p, Tail(rest), links)

Resolve(path, links) == Walk(<<>>, path, links)

HasNul(path) == \E i \in DOMAIN path : \E j \in DOMAIN path[i] : path[i][j] = "NUL"

\* target.relative_to(output_dir) succeeds
RelativeTo(target, dir) == StartsWith(target, dir)

\* sanitize_output_path without the relative_to check
sanitize_output_path_Unchecked(output_dir, filename, links) ==
    LET dir == Resolve(output_dir, links)
        joined == JoinPath(dir, sanitize_filename(filename))
    IN  IF HasNul(joined) THEN [kind |-> "ValueError"]
        ELSE [kind |-> "return", path |-> Resolve(joined, links)]

\* SecurityValidator.sanitize_output_path
sanitize_output_path(output_dir, filename, links) ==
    LET dir == Resolve(output_dir, links)
        safe_filename == sanitize_filename(filename)
        joined == JoinPath(dir, safe_filename)
        target == Resolve(joined, links)
    IN  IF HasNul(joined) THEN [kind |-> "ValueError"]
        ELSE IF ~RelativeTo(target, dir)
             THEN [kind |-> "SecurityError", violation_type |-> "PATH_TRAVERSAL"]
        ELSE [kind |-> "return", path |-> target]

DirO == <<"o">>
DirE == <<"e">>
DirS == <<"s">>
NoLinks == [x \in {} |-> <<>>]
LinkTables ==
    {NoLinks,
     <<DirO, <<"a">> >> :> <<DirE>>,            \* /o/a -> /e
     <<DirO, <<"a">> >> :> <<DirO, <<"_">> >>,  \* /o/a -> /o/_
     <<DirO>> :> <<DirS>>,                      \* /o -> /s
     <<DirO, UNNAMED_FILE>> :> <<DirE>>}        \* /o/unnamed_file -> /e

OutputDirs == {<<>>, <<DirO>>, <<DirO, <<".", ".">>, DirS>>, <<DirO, DirO>>}

PathInit ==
    /\ s_dir \in OutputDirs
    /\ s_name \in Str(MaxLen) \cup {UNNAMED_FILE}
    /\ s_links \in LinkTables
    /\ s_out = [kind |-> "pending"]
    /\ s_safe = <<>>

SanitizeOutputPath ==
    /\ s_out.kind = "pending"
    /\ s_out' = sanitize_output_path(s_dir, s_name, s_links)
    /\ UNCHANGED <<nonpath, s_dir, s_name, s_links, s_safe>>

\* SecurityValidator.sanitize_filename called on the name, once and again
SanitizeFilename ==
    /\ Len(s_safe) < 2
    /\ s_safe' = Append(s_safe, sanitize_filename(s_name))
    /\ UNCHANGED <<nonpath, s_dir, s_name, s_links, s_out>>

PathNext == SanitizeOutputPath \/ SanitizeFilename

\* --------------------------------------------------------- worker count
MaxCount == 3

Nothing == <<>>
Some(x) == <<x>>
\* the truth value of an optional integer: None and 0 are false
Truthy(o) == o # Nothing /\ o[1] # 0

\* the constructor with the configuration ahead of the argument
AsyncInit_ConfigFirst(max_workers_arg, config_max_workers, cpus) ==
    IF Truthy(config_max_workers) THEN config_max_workers[1]
    ELSE IF Truthy(max_workers_arg) THEN max_workers_arg[1]
    ELSE cpus

\* AsyncCVDSimulator.__init__: max_workers or self.config.max_workers or cpu_count()
AsyncInit(max_workers_arg, config_max_workers, cpus) ==
    IF Truthy(max_workers_arg) THEN max_workers_arg[1]
    ELSE IF Truthy(config_max_workers) THEN config_max_workers[1]
    ELSE cpus

\* ProcessPoolExecutor(max_workers=...), as process_batch_parallel creates it
PoolOf(self_max_workers, total) ==
    IF total = 0 THEN [kind |-> "no pool"]
    ELSE IF self_max_workers <= 0 THEN [kind |-> "ValueError"]
    ELSE [kind |-> "pool", max_workers |-> self_max_workers]

\* get_optimal_workers, given the limit it derives from the free memory
get_optimal_workers(image_count, memory_based_limit, cpus) ==
    Max(1, Min(memory_based_limit, Min(cpus, image_count)))

WorkersInit ==
    /\ w_arg \in {Nothing} \cup {Some(x) : x \in -1..MaxCount}
    /\ w_config \in {Nothing} \cup {Some(x) : x \in 1..MaxCount}
    /\ w_cpus \in 1..MaxCount
    /\ w_total \in 0..MaxCount
    /\ w_mem \in 0..MaxCount
    /\ w_self = Nothing
    /\ w_pool = [kind |-> "unset"]
    /\ w_optimal = Nothing

ConstructAsync ==
    /\ w_self = Nothing
    /\ w_self' = Some(AsyncInit(w_arg, w_config, w_cpus))
    /\ UNCHANGED <<nonworkers, w_arg, w_config, w_cpus, w_total, w_mem, w_pool, w_optimal>>

StartPool ==
    /\ w_self # Nothing
    /\ w_pool.kind = "unset"
    /\ w_pool' = PoolOf(w_self[1], w_total)
    /\ UNCHANGED <<nonworkers, w_arg, w_config, w_cpus, w_total, w_mem, w_self, w_optimal>>

GetOptimalWorkers ==
    /\ w_optimal = Nothing
    /\ w_optimal' = Some(get_optimal_workers(w_total, w_mem, w_cpus))
    /\ UNCHANGED <<nonworkers, w_arg, w_config, w_cpus, w_total, w_mem, w_self, w_pool>>

WorkersNext == ConstructAsync \/ StartPool \/ GetOptimalWorkers

\* ------------------------------------- SimulationConfig and OutputWriter
\* Python values, by type.  A float is a number of tenths; an object is a
\* value json has no encoding for (a Path, say), known by its str().
PyStr(x) == [t |-> "str", v |-> x]
PyInt(n) == [t |-> "int", v |-> n]
PyFloat(n) == [t |-> "float", v |-> n]
PyBool(b) == [t |-> "bool", v |-> b]
PyNone == [t |-> "NoneType"]
PyList(items) == [t |-> "list", v |-> items]
PyTuple(items) == [t |-> "tuple", v |-> items]
PyObject(str) == [t |-> "object", v |-> str]
PyDict(d) == [t |-> "dict", v |-> d]

\* enums.OutputFormat and enums.Algorithm, by member name
OutputFormat == <<"JPEG", "PNG", "WEBP", "TIFF", "BMP">>
Algorithm == <<"BRETTEL_1997", "VIENOT_1999", "MACHADO_2009", "VISCHECK", "AUTO">>

OutputFormatValue(fmt) ==
    CASE fmt = "JPEG" -> "jpg"
      [] fmt = "PNG" -> "png"
      [] fmt = "WEBP" -> "webp"
      [] fmt = "TIFF" -> "tiff"
      [] fmt = "BMP" -> "bmp"

\* OutputFormat.pil_format
pil_format(fmt) ==
    CASE fmt = "JPEG" -> "JPEG"
      [] fmt = "PNG" -> "PNG"
      [] fmt = "WEBP" -> "WEBP"
      [] fmt = "TIFF" -> "TIFF"
      [] fmt = "BMP" -> "BMP"

\* A float is a number of tenths, or NaN; 1.0 is One tenths.
One == 10
Float(t) == [nan |-> FALSE, tenths |-> t]
NaN == [nan |-> TRUE, tenths |-> 0]
\* a <= b on floats: every comparison with NaN is false
FloatLeq(a, b) == ~a.nan /\ ~b.nan /\ a.tenths <= b.tenths

QUALITY_MIN == 1
QUALITY_MAX == 95

\* output_directory: a pathlib.Path, or a value of another type (a str)
PathValue(parts) == [is_path |-> TRUE, parts |-> parts]
StrValue(parts) == [is_path |-> FALSE, parts |-> parts]
DefaultOutputDirectory == PathValue(<<"outputs">>)

\* the field defaults of the dataclass
DefaultConfig ==
    [algorithm |-> "BRETTEL_1997",
     severity |-> Float(8),
     output_format |-> "JPEG",
     output_directory |-> DefaultOutputDirectory,
     quality |-> QUALITY_MAX,
     optimize |-> TRUE,
     log_level |-> "INFO",
     max_workers |-> Nothing,
     max_image_size |-> DefaultMaxFileSize,
     max_image_dimension |-> DefaultMaxDimension]

\* _validate without its last check
SimulationConfigValidate_NoDimension(c) ==
    IF ~(FloatLeq(Float(0), c.severity) /\ FloatLeq(c.severity, Float(One)))
    THEN "severity"
    ELSE IF ~(QUALITY_MIN <= c.quality /\ c.quality <= QUALITY_MAX) THEN "quality"
    ELSE IF ~c.output_directory.is_path THEN "output_directory"
    ELSE IF c.max_workers # Nothing /\ c.max_workers[1] < 1 THEN "max_workers"
    ELSE IF c.max_image_size < 1 THEN "max_image_size"
    ELSE "OK"

\* SimulationConfig._validate: "OK", or the field of the ValidationError raised
SimulationConfigValidate(c) ==
    IF ~(FloatLeq(Float(0), c.severity) /\ FloatLeq(c.severity, Float(One)))
    THEN "severity"
    ELSE IF ~(QUALITY_MIN <= c.quality /\ c.quality <= QUALITY_MAX) THEN "quality"
    ELSE IF ~c.output_directory.is_path THEN "output_directory"
    ELSE IF c.max_workers # Nothing /\ c.max_workers[1] < 1 THEN "max_workers"
    ELSE IF c.max_image_size < 1 THEN "max_image_size"
    ELSE IF c.max_image_dimension < 1 THEN "max_image_dimension"
    ELSE "OK"

\* SimulationConfig(...): the dataclass __init__ stores the fields, then
\* __post_init__ validates; an exception leaves the caller without an instance
SimulationConfig(field_values) ==
    LET v == SimulationConfigValidate(field_values)
    IN  IF v = "OK" THEN [kind |-> "instance", config |-> field_values]
        ELSE [kind |-> "ValidationError", field |-> v]

\* _get_format_settings handing the optimize flag to the WEBP encoder too
get_format_settings_WebpOptimize(config) ==
    LET fmt == config.output_format
        settings == [format |-> pil_format(fmt)]
    IN  IF fmt = "JPEG"
        THEN settings @@ [quality |-> config.quality, optimize |-> config.optimize]
        ELSE IF fmt = "PNG" THEN settings @@ [optimize |-> config.optimize]
        ELSE IF fmt = "WEBP"
             THEN settings @@ [quality |-> config.quality, optimize |-> config.optimize,
                               method |-> 6]
        ELSE settings

\* OutputWriter._get_format_settings: the keyword arguments of Image.save
get_format_settings(config) ==
    LET fmt == config.output_format
        settings == [format |-> pil_format(fmt)]
    IN  IF fmt = "JPEG"
        THEN settings @@ [quality |-> config.quality, optimize |-> config.optimize]
        ELSE IF fmt = "PNG" THEN settings @@ [optimize |-> config.optimize]
        ELSE IF fmt = "WEBP" THEN settings @@ [quality |-> config.quality, method |-> 6]
        ELSE settings

ConfigInit ==
    /\ c_args \in
         {[DefaultConfig EXCEPT !.severity = sv, !.quality = q, !.output_directory = d,
                                !.max_workers = w, !.max_image_size = sz,
                                !.max_image_dimension = dim, !.output_format = fmt,
                                !.optimize = opt] :
            sv \in {NaN} \cup {Float(t) : t \in {-1, 0, 8, One, One + 1}},
            q \in {QUALITY_MIN - 1, QUALITY_MIN, QUALITY_MAX, QUALITY_MAX + 1},
            d \in {DefaultOutputDirectory, PathValue(<<>>), StrValue(<<"outputs">>)},
            w \in {Nothing} \cup {Some(x) : x \in 0..1},
            sz \in 0..1, dim \in 0..1,
            fmt \in Range(OutputFormat), opt \in BOOLEAN}
    /\ c_config = [kind |-> "pending"]
    /\ c_settings = [kind |-> "pending"]
    /\ c_dict = [kind |-> "pending"]
    /\ c_worker = [kind |-> "pending"]

ConstructConfig ==
    /\ c_config.kind = "pending"
    /\ c_config' = SimulationConfig(c_args)
    /\ UNCHANGED <<nonconfig, c_args, c_settings, c_dict, c_worker>>

\* an OutputWriter of the instance derives the encoder options
GetFormatSettings ==
    /\ c_config.kind = "instance"
    /\ c_settings = [kind |-> "pending"]
    /\ c_settings' = get_format_settings(c_config.config)
    /\ UNCHANGED <<nonconfig, c_args, c_config, c_dict, c_worker>>

\* enums.LogLevel, by member name
LogLevel == <<"DEBUG", "INFO", "WARNING", "ERROR", "CRITICAL">>

\* str.upper on the strings that occur as names or values of enum members
Upper(x) ==
    LET pairs == {<<"jpg", "JPG">>, <<"jpeg", "JPEG">>, <<"png", "PNG">>,
                  <<"webp", "WEBP">>, <<"tiff", "TIFF">>, <<"bmp", "BMP">>,
                  <<"brettel_1997", "BRETTEL_1997">>, <<"vienot_1999", "VIENOT_1999">>,
                  <<"machado_2009", "MACHADO_2009">>, <<"vischeck", "VISCHECK">>,
                  <<"auto", "AUTO">>, <<"info", "INFO">>, <<"debug", "DEBUG">>}
    IN  IF \E p \in pairs : p[1] = x THEN (CHOOSE p \in pairs : p[1] = x)[2] ELSE x

\* str(path): the parts joined, "." for the path without parts
PathStr(path) == PyStr(IF path.parts = <<>> THEN <<".">> ELSE path.parts)
\* Path(string): the components, without the empty ones and the dots
PathOf(string) == PathValue(SelectSeq(string.v, LAMBDA part : part \notin {"", "."}))

IsStr(x) == DOMAIN x = {"t", "v"} /\ x.t = "str"

\* to_dict writing the value of the output format where the code writes its name
to_dict_ByValue(self) ==
    [algorithm |-> PyStr(self.algorithm),
     severity |-> self.severity,
     output_format |-> PyStr(OutputFormatValue(self.output_format)),
     output_directory |-> PathStr(self.output_directory),
     quality |-> self.quality,
     optimize |-> self.optimize,
     log_level |-> PyStr(self.log_level),
     max_workers |-> self.max_workers,
     max_image_size |-> self.max_image_size,
     max_image_dimension |-> self.max_image_dimension]

\* SimulationConfig.to_dict: enum members by name, the directory as a string
to_dict(self) ==
    [algorithm |-> PyStr(self.algorithm),
     severity |-> self.severity,
     output_format |-> PyStr(self.output_format),
     output_directory |-> PathStr(self.output_directory),
     quality |-> self.quality,
     optimize |-> self.optimize,
     log_level |-> PyStr(self.log_level),
     max_workers |-> self.max_workers,
     max_image_size |-> self.max_image_size,
     max_image_dimension |-> self.max_image_dimension]

ConfigurationError(key) == [kind |-> "ConfigurationError", config_key |-> key]

\* Enum[data[key].upper()] for a string under the key: the dict with the
\* member in its place, or the ConfigurationError of the KeyError
ConvertEnum(data, key, members) ==
    IF key \in DOMAIN data /\ IsStr(data[key])
    THEN IF Upper(data[key].v) \in Range(members)
         THEN [kind |-> "data", data |-> [data EXCEPT ![key] = Upper(data[key].v)]]
         ELSE ConfigurationError(key)
    ELSE [kind |-> "data", data |-> data]

\* the body of from_dict on `data`: what is returned or raised, and `data` at
\* that point
FromDictBody(data) ==
    LET a == ConvertEnum(data, "algorithm", Algorithm)
        b == IF a.kind = "data" THEN ConvertEnum(a.data, "output_format", OutputFormat) ELSE a
        c == IF b.kind = "data" THEN ConvertEnum(b.data, "log_level", LogLevel) ELSE b
        last == IF a.kind # "data" THEN data ELSE IF b.kind # "data" THEN a.data
                ELSE IF c.kind # "data" THEN b.data ELSE c.data
        d == IF "output_directory" \in DOMAIN last /\ IsStr(last.output_directory)
             THEN [last EXCEPT !.output_directory = PathOf(last.output_directory)]
             ELSE last
        unknown_keys == DOMAIN d \ DOMAIN DefaultConfig
    IN  IF c.kind # "data" THEN [result |-> c, data |-> last]
        ELSE IF unknown_keys # {}
             THEN [result |-> ConfigurationError(CHOOSE k \in unknown_keys : TRUE), data |-> d]
        ELSE [result |-> SimulationConfig([k \in DOMAIN DefaultConfig |->
                            IF k \in DOMAIN d THEN d[k] ELSE DefaultConfig[k]]),
              data |-> d]

\* SimulationConfig.from_dict: the body runs on config_dict.copy(), so the
\* caller's dictionary is as it was
from_dict(config_dict) ==
    [result |-> FromDictBody(config_dict).result, config_dict |-> config_dict]

\* process_batch_parallel: config_dict = self.config.to_dict()
ToDict ==
    /\ c_config.kind = "instance"
    /\ c_dict = [kind |-> "pending"]
    /\ c_dict' = [kind |-> "dict", dict |-> to_dict(c_config.config)]
    /\ UNCHANGED <<nonconfig, c_args, c_config, c_settings, c_worker>>

\* _process_single_image in a worker: SimulationConfig.from_dict(config_dict)
FromDict ==
    /\ c_dict.kind = "dict"
    /\ c_worker = [kind |-> "pending"]
    /\ LET r == from_dict(c_dict.dict)
       IN  /\ c_worker' = r.result
           /\ c_dict' = [kind |-> "dict", dict |-> r.config_dict]
    /\ UNCHANGED <<nonconfig, c_args, c_config, c_settings>>

ConfigNext == ConstructConfig \/ GetFormatSettings \/ ToDict \/ FromDict

\* ------------------------------------------------- presets and the CLI
\* presets.PresetType, by value
PresetType ==
    {"web_design", "print_media", "scientific_visualization", "mobile_app",
     "archival", "fast_preview"}

PresetConfig(algorithm, severity, output_format, quality, optimize) ==
    [DefaultConfig EXCEPT !.algorithm = algorithm, !.severity = severity,
                          !.output_format = output_format, !.quality = quality,
                          !.optimize = optimize]

\* the table PRESETS as the module builds it at import
InitialPresets ==
    [p \in PresetType |->
        CASE p = "web_design" -> PresetConfig("MACHADO_2009", Float(8), "WEBP", 85, TRUE)
          [] p = "print_media" -> PresetConfig("VIENOT_1999", Float(One), "PNG", 95, TRUE)
          [] p = "scientific_visualization" ->
                PresetConfig("BRETTEL_1997", Float(One), "TIFF", 95, FALSE)
          [] p = "mobile_app" -> PresetConfig("AUTO", Float(7), "JPEG", 90, TRUE)
          [] p = "archival" -> PresetConfig("VISCHECK", Float(One), "PNG", 95, TRUE)
          [] p = "fast_preview" -> PresetConfig("BRETTEL_1997", Float(6), "JPEG", 75, TRUE)]

\* apply_preset: a shallow copy of the preset's config, with the override
apply_preset(table, preset_type, output_directory) ==
    LET config == table[preset_type]
    IN  IF output_directory # Nothing
        THEN [config EXCEPT !.output_directory = output_directory[1]]
        ELSE config

\* the defaults of create_parser
DefaultArgs ==
    [images |-> <<>>, list_algorithms |-> FALSE, list_types |-> FALSE,
     list_presets |-> FALSE, preset |-> NoneVal, output |-> <<"outputs">>,
     severity |-> Float(8), quality |-> QUALITY_MAX, algorithm |-> "BRETTEL_1997",
     format |-> "JPEG", type |-> NoneVal, export_metadata |-> FALSE,
     profile |-> FALSE]

OtherDir == <<"my_outputs">>

\* the argument lists main is run on, as parse_args returns them: runs with a
\* list option, runs with a preset, and runs with a configuration of their own
ParsedArgs ==
    {[DefaultArgs EXCEPT !.images = im, !.list_algorithms = (l = 1),
                         !.list_types = (l = 2), !.list_presets = (l = 3)] :
        im \in SeqsUpTo({"a.png"}, 1), l \in 1..3}
    \cup
    {[DefaultArgs EXCEPT !.images = im, !.preset = pr, !.output = out] :
        im \in SeqsUpTo({"a.png"}, MaxImages),
        pr \in {"web_design", "archival"},
        out \in {<<"outputs">>, OtherDir}}
    \cup
    {[DefaultArgs EXCEPT !.images = im, !.severity = sv, !.type = m[1],
                         !.export_metadata = m[2], !.profile = pf] :
        im \in SeqsUpTo({"a.png"}, MaxImages),
        sv \in {Float(8), Float(One + 1)},
        m \in {<<NoneVal, FALSE>>, <<"TRITAN", FALSE>>, <<NoneVal, TRUE>>},
        pf \in BOOLEAN}

ExitCode(code) == [kind |-> "exit", code |-> code]

\* the config object of the run: the preset table's own object, or another
ConfigOf(table, ref) ==
    IF ref.kind = "preset" THEN table[ref.key] ELSE ref.config

\* cli.process_single_image: 1 when the image was processed (and its metadata
\* exported, when asked for), 0 when anything raised
process_single_image(f, fault, type, export_metadata_flag, export_ok) ==
    LET processed ==
            IF type # NoneVal
            THEN ProcessSingleImageWithType(f, fault, type, 0) # None
            ELSE ~process_image(f, fault, 0).raised
    IN  IF processed /\ (export_metadata_flag => export_ok) THEN 1 ELSE 0

\* PerformanceProfiler.__init__
PerformanceProfiler == [enabled |-> TRUE, timings |-> {}]
disable(self) == [self EXCEPT !.enabled = FALSE]
enable(self) == [self EXCEPT !.enabled = TRUE]

\* PerformanceProfiler.time_operation around one operation: a measurement is
\* recorded when the block ends, also by an exception, if profiling is enabled
time_operation(self, operation_name) ==
    IF ~self.enabled THEN self
    ELSE [self EXCEPT !.timings = @ \cup {operation_name}]

\* the blocks of cli.process_single_image that are entered: none without
\* --type; with it load_image, then simulate, then save_output, each entered
\* when the one before did not raise
TimedOperations(f, fault, type) ==
    IF type = NoneVal THEN <<>>
    ELSE IF load(f, fault).raised THEN <<"load_image">>
    ELSE IF fault.step = "simulate" /\ fault.k = CVDTypeIndex(type)
         THEN <<"load_image", "simulate">>
    ELSE <<"load_image", "simulate", "save_output">>

RECURSIVE TimeAll(_, _)
TimeAll(self, operations) ==
    IF operations = <<>> THEN self
    ELSE TimeAll(time_operation(self, Head(operations)), Tail(operations))

\* what one call of cli.process_single_image may do, by --type and
\* --export-metadata: the count it returns and the blocks it times
SingleImageOutcomes ==
    [type \in {NoneVal} \cup Range(CVDType) |-> [export_metadata_flag \in BOOLEAN |->
        {[count |-> process_single_image(f, fault, type, export_metadata_flag, export_ok),
          timed |-> TimedOperations(f, fault, type)] :
            f \in BatchFiles, fault \in Faults \ {[step |-> "config", k |-> 0]},
            export_ok \in BOOLEAN}]]

\* "Initialize profiler": get_global_profiler(), disabled without --profile
InitProfiler(self, parsed) ==
    IF ~parsed.profile THEN disable(self) ELSE self

CliInit ==
    /\ PRESETS = InitialPresets
    /\ l_profiler = PerformanceProfiler
    /\ l_timed = {}
    /\ l_parsed = DefaultArgs
    /\ l_pc = "idle"
    /\ l_config = [kind |-> "none"]
    /\ l_idx = 0
    /\ l_success = 0
    /\ l_outcomes = <<>>
    /\ l_exit = [kind |-> "none"]
    /\ l_applied = [kind |-> "none"]

\* main, up to the check that images are given
Main ==
    /\ l_pc = "idle"
    /\ l_parsed' \in ParsedArgs
    /\ l_config' = [kind |-> "none"]
    /\ l_idx' = 0
    /\ l_success' = 0
    /\ l_outcomes' = <<>>
    /\ IF l_parsed'.list_algorithms \/ l_parsed'.list_types \/ l_parsed'.list_presets
       THEN l_exit' = ExitCode(0) /\ l_pc' = "idle"
       ELSE IF l_parsed'.images = <<>>
       THEN l_exit' = ExitCode(2) /\ l_pc' = "idle"    \* parser.error
       ELSE l_exit' = [kind |-> "none"] /\ l_pc' = "config"
    /\ l_profiler' = IF l_pc' = "config" THEN InitProfiler(l_profiler, l_parsed')
                     ELSE l_profiler
    /\ l_timed' = {}
    /\ UNCHANGED <<noncli, PRESETS, l_applied>>

\* "Build configuration"
BuildConfig ==
    /\ l_pc = "config"
    /\ IF l_parsed.preset # NoneVal
       THEN /\ l_config' = [kind |-> "preset", key |-> l_parsed.preset]
            /\ PRESETS' = [PRESETS EXCEPT ![l_parsed.preset].output_directory =
                                              PathValue(l_parsed.output)]
            /\ l_pc' = "simulator"
            /\ l_exit' = l_exit
       ELSE LET made == SimulationConfig(
                            [DefaultConfig EXCEPT !.algorithm = l_parsed.algorithm,
                                                  !.severity = l_parsed.severity,
                                                  !.output_format = l_parsed.format,
                                                  !.output_directory =
                                                      PathValue(l_parsed.output),
                                                  !.quality = l_parsed.quality])
            IN  /\ PRESETS' = PRESETS
                /\ IF made.kind = "instance"
                   THEN /\ l_config' = [kind |-> "own", config |-> made.config]
                        /\ l_pc' = "simulator"
                        /\ l_exit' = l_exit
                   ELSE /\ l_config' = l_config
                        /\ l_pc' = "idle"
                        /\ l_exit' = ExitCode(1)
    /\ UNCHANGED <<noncli, l_parsed, l_idx, l_success, l_outcomes, l_applied,
                   l_profiler, l_timed>>

\* "Create simulator": CVDSimulator(config) may raise
CreateSimulator ==
    /\ l_pc = "simulator"
    /\ \E raised \in BOOLEAN :
        IF raised
        THEN l_pc' = "idle" /\ l_exit' = ExitCode(1) /\ l_idx' = l_idx
        ELSE l_pc' = "process" /\ l_exit' = l_exit /\ l_idx' = 1
    /\ UNCHANGED <<noncli, PRESETS, l_parsed, l_config, l_success, l_outcomes, l_applied,
                   l_profiler, l_timed>>

\* one iteration of the loop over image_paths
ProcessImage ==
    /\ l_pc = "process" /\ l_idx <= Len(l_parsed.images)
    /\ \E o \in SingleImageOutcomes[l_parsed.type][l_parsed.export_metadata] :
        /\ l_success' = l_success + o.count
        /\ l_outcomes' = Append(l_outcomes, o.count)
        /\ l_profiler' = TimeAll(l_profiler, o.timed)
        /\ l_timed' = IF l_profiler.enabled THEN l_timed \cup Range(o.timed) ELSE l_timed
    /\ l_idx' = l_idx + 1
    /\ UNCHANGED <<noncli, PRESETS, l_parsed, l_pc, l_config, l_exit, l_applied>>

\* main returning 0 as soon as one image succeeded
main_return_AnySuccess(succeeded, total) == IF succeeded > 0 THEN 0 ELSE 1

\* `return 0 if success_count == total else 1`
main_return(succeeded, total) == IF succeeded = total THEN 0 ELSE 1

\* the summary and the return of main
FinishMain ==
    /\ l_pc = "process" /\ l_idx > Len(l_parsed.images)
    /\ l_exit' = ExitCode(main_return(l_success, Len(l_parsed.images)))
    /\ l_pc' = "idle"
    /\ UNCHANGED <<noncli, PRESETS, l_parsed, l_config, l_idx, l_success, l_outcomes,
                   l_applied, l_profiler, l_timed>>

\* a caller of the library applies a preset
ApplyPreset ==
    /\ l_pc = "idle"
    /\ \E p \in {"web_design", "archival"}, d \in {Nothing, Some(PathValue(OtherDir))} :
        l_applied' = [kind |-> "config", preset |-> p, output_directory |-> d,
                      config |-> apply_preset(PRESETS, p, d)]
    /\ UNCHANGED <<noncli, PRESETS, l_parsed, l_pc, l_config, l_idx, l_success,
                   l_outcomes, l_exit, l_profiler, l_timed>>

CliNext ==
    \/ Main
    \/ BuildConfig
    \/ CreateSimulator
    \/ ProcessImage
    \/ FinishMain
    \/ ApplyPreset

\* ------------------------------------------------------ metadata sidecar

\* JSON documents
JString(x) == [j |-> "string", v |-> x]
\* a number literal, with or without a fraction part ("5.0", "5")
JNumber(n, fraction) == [j |-> "number", v |-> n, fraction |-> fraction]
JBool(b) == [j |-> "bool", v |-> b]
JNull == [j |-> "null"]
JArray(items) == [j |-> "array", v |-> items]
JObject(d) == [j |-> "object", v |-> d]

\* json.dump(..., default=str) of a value that holds no container deeper
\* than one level: a tuple is written as an array, and a value json cannot
\* encode is written as the string str() gives
DumpAtom(x) ==
    CASE x.t = "str" -> JString(x.v)
      [] x.t = "int" -> JNumber(x.v, FALSE)
      [] x.t = "float" -> JNumber(x.v, TRUE)
      [] x.t = "bool" -> JBool(x.v)
      [] x.t = "NoneType" -> JNull
      [] x.t = "object" -> JString(x.v)

Dump(x) ==
    CASE x.t \in {"list", "tuple"} -> JArray([i \in DOMAIN x.v |-> DumpAtom(x.v[i])])
      [] x.t = "dict" -> JObject([k \in DOMAIN x.v |-> DumpAtom(x.v[k])])
      [] OTHER -> DumpAtom(x)

\* json.load
LoadAtom(d) ==
    CASE d.j = "string" -> PyStr(d.v)
      [] d.j = "number" -> IF d.fraction THEN PyFloat(d.v) ELSE PyInt(d.v)
      [] d.j = "bool" -> PyBool(d.v)
      [] d.j = "null" -> PyNone

Load(d) ==
    CASE d.j = "array" -> PyList([i \in DOMAIN d.v |-> LoadAtom(d.v[i])])
      [] d.j = "object" -> PyDict([k \in DOMAIN d.v |-> LoadAtom(d.v[k])])
      [] OTHER -> LoadAtom(d)

\* a dict's values are dumped and loaded one by one
DumpDict(d) == JObject([k \in DOMAIN d |-> Dump(d[k])])
LoadDict(o) == [k \in DOMAIN o.v |-> Load(o.v[k])]

\* export_metadata: the document written to the sidecar file
export_metadata(metadata) ==
    JObject([version |-> Dump(metadata.version),
             timestamp |-> Dump(metadata.timestamp),
             input_file |-> Dump(metadata.input_file),
             input_checksum |-> Dump(metadata.input_checksum),
             output_files |-> DumpDict(metadata.output_files),
             config |-> DumpDict(metadata.config),
             system_info |-> DumpDict(metadata.system_info),
             execution_time_ms |-> Dump(metadata.execution_time_ms),
             notes |-> Dump(metadata.notes)])

\* data.get(key, default)
Get(data, key, default) == IF key \in DOMAIN data THEN data[key] ELSE default

\* load_metadata forgetting the notes
load_metadata_NoNotes(file) ==
    LET data == file.v
    IN  [version |-> Load(data["version"]),
         timestamp |-> Load(data["timestamp"]),
         input_file |-> Load(data["input_file"]),
         input_checksum |-> Load(data["input_checksum"]),
         output_files |-> LoadDict(Get(data, "output_files", JObject(EmptyMap))),
         config |-> LoadDict(Get(data, "config", JObject(EmptyMap))),
         system_info |-> LoadDict(Get(data, "system_info", JObject(EmptyMap))),
         execution_time_ms |-> Load(Get(data, "execution_time_ms", JNumber(0, TRUE))),
         notes |-> PyStr("")]

\* load_metadata: the record built from the document of the file
load_metadata(file) ==
    LET data == file.v
    IN  [version |-> Load(data["version"]),
         timestamp |-> Load(data["timestamp"]),
         input_file |-> Load(data["input_file"]),
         input_checksum |-> Load(data["input_checksum"]),
         output_files |-> LoadDict(Get(data, "output_files", JObject(EmptyMap))),
         config |-> LoadDict(Get(data, "config", JObject(EmptyMap))),
         system_info |-> LoadDict(Get(data, "system_info", JObject(EmptyMap))),
         execution_time_ms |-> Load(Get(data, "execution_time_ms", JNumber(0, TRUE))),
         notes |-> Load(Get(data, "notes", JString("")))]

\* the values a config snapshot may hold under one key
ConfigValues ==
    {PyStr("x"), PyInt(1), PyFloat(8), PyBool(TRUE), PyNone,
     PyList(<<PyInt(1)>>), PyTuple(<<PyInt(1)>>), PyObject("x")}

\* dicts with some of the keys, each mapped to one of the values
Dicts(keys, values) == UNION {[ks -> values] : ks \in SUBSET keys}

\* the SimulationMetadata records exported
Records ==
    [version : {PyStr("1.1.0")},
     timestamp : {PyStr("2026-02-12T15:30:45Z")},
     input_file : {PyStr("a.png")},
     input_checksum : {PyStr(""), PyStr("9f86d0")},
     output_files : Dicts({"PROTAN"}, {PyStr("outputs/protan_image_0.jpg")}),
     config : Dicts({"quality", "output_directory"}, ConfigValues),
     system_info : Dicts({"machine"}, {PyStr("x86_64")}),
     execution_time_ms : {PyFloat(0), PyFloat(15)},
     notes : {PyStr(""), PyStr("n")}]

MetadataInit ==
    /\ m_record \in Records
    /\ m_file = [kind |-> "absent"]
    /\ m_loaded = [kind |-> "pending"]

ExportMetadata ==
    /\ m_file = [kind |-> "absent"]
    /\ m_file' = export_metadata(m_record)
    /\ UNCHANGED <<nonmetadata, m_record, m_loaded>>

LoadMetadata ==
    /\ "j" \in DOMAIN m_file
    /\ m_loaded = [kind |-> "pending"]
    /\ m_loaded' = load_metadata(m_file)
    /\ UNCHANGED <<nonmetadata, m_record, m_file>>

MetadataNext == ExportMetadata \/ LoadMetadata

\* --------------------------------------------------- load and simulate
\* One thing done with the file or the image: an operation on a handle
\* ("fmt", "img", "img2" are the validator's, "image" is the loader's) or a
\* step for a deficiency type.
Ev(op, h) == [op |-> op, handle |-> h]

\* what validate_image does with the file: _get_image_format opens and closes
\* it, then the last try block opens it, verifies, reopens, reads the size;
\* each `with` closes its handle, also when its body raises
ValidateTrace(self, f) ==
    LET sniff == IF f.opens THEN <<Ev("open", "fmt"), Ev("close", "fmt")>> ELSE <<>>
        measure ==
            IF ~f.opens THEN <<>>
            ELSE IF ~f.verifies
                 THEN <<Ev("open", "img"), Ev("verify", "img"), Ev("close", "img")>>
            ELSE <<Ev("open", "img"), Ev("verify", "img"), Ev("open", "img2"),
                   Ev("size", "img2"), Ev("close", "img2"), Ev("close", "img")>>
    IN  IF ~f.exists \/ ~f.is_file \/ f.size > self.max_file_size \/ f.size = 0 THEN <<>>
        ELSE IF GetImageFormat(f) = NoneVal \/ GetImageFormat(f) \notin self.allowed_formats
             THEN sniff
        ELSE sniff \o measure

\* the loader opening the file before it validates it
LoadTrace_OpenFirst(f, fault) ==
    LET self == SecurityValidator(DefaultMaxFileSize, DefaultMaxDimension, {})
    IN  (IF f.exists /\ f.opens /\ fault.step # "open" THEN <<Ev("open", "image")>> ELSE <<>>)
        \o ValidateTrace(self, f)

\* what ImageLoader.load does with the file: validate, then open, then
\* convert to RGB if necessary
LoadTrace(f, fault) ==
    LET self == SecurityValidator(DefaultMaxFileSize, DefaultMaxDimension, {})
    IN  ValidateTrace(self, f) \o
        (IF validate_image(self, f) # "OK" \/ fault.step = "open" THEN <<>>
         ELSE <<Ev("open", "image")>> \o
              (IF f.mode # "RGB" THEN <<Ev("convert", "image")>> ELSE <<>>))

\* the steps of the loop of process_image that were carried out
RECURSIVE TypesTrace(_, _)
TypesTrace(k, fault) ==
    IF k > Len(CVDType) THEN <<>>
    ELSE IF fault.step = "simulate" /\ fault.k = k THEN <<>>
    ELSE IF fault.step = "save" /\ fault.k = k THEN <<Ev("simulate", CVDType[k])>>
    ELSE <<Ev("simulate", CVDType[k]), Ev("save", CVDType[k])>> \o TypesTrace(k + 1, fault)

\* what CVDSimulator.process_image does: load, then the loop over the types
ProcessImageTrace(f, fault) ==
    LoadTrace(f, fault) \o
    (IF load(f, fault).raised THEN <<>> ELSE TypesTrace(1, fault))

\* numpy.asarray of an image: the shape of the array
to_numpy(image) ==
    CASE image.mode = "RGB" -> <<image.height, image.width, 3>>
      [] image.mode = "RGBA" -> <<image.height, image.width, 4>>
      [] image.mode = "L" -> <<image.height, image.width>>

\* Image.fromarray of an array of that shape
from_numpy(array) ==
    CASE Len(array) = 3 /\ array[3] = 3 -> Image(array[2], array[1], "RGB")
      [] Len(array) = 3 /\ array[3] = 4 -> Image(array[2], array[1], "RGBA")
      [] Len(array) = 2 -> Image(array[2], array[1], "L")

\* simulate_cvd of the daltonlens simulator: on an array of RGB pixels an
\* array of the same shape, unless the library raises
simulate_cvd(array, outcome) ==
    IF outcome = "ok" /\ Len(array) = 3 /\ array[3] = 3 THEN array
    ELSE [kind |-> "Exception"]

\* simulate with the grayscale result left in mode L
simulate_GrayL(image, type, outcome) ==
    IF type = "GRAYSCALE" THEN Convert(image, "L")
    ELSE LET result_array == simulate_cvd(to_numpy(image), outcome)
         IN  IF DOMAIN result_array = {"kind"} THEN CVDSimulatorError
             ELSE from_numpy(result_array)

\* CVDSimulator.simulate: any exception becomes a CVDSimulatorError
simulate(image, type, outcome) ==
    IF type = "GRAYSCALE" THEN Convert(Convert(image, "L"), "RGB")
    ELSE LET result_array == simulate_cvd(to_numpy(image), outcome)
         IN  IF DOMAIN result_array = {"kind"} THEN CVDSimulatorError
             ELSE from_numpy(result_array)

Pending == [kind |-> "pending"]

ImageInit ==
    /\ i_file \in ImageFiles
    /\ i_fault \in {NoFault, [step |-> "open", k |-> 0]}
    /\ i_config \in [algorithm : Range(Algorithm), severity : {Float(0), Float(One)},
                     max_image_size : {DefaultMaxFileSize},
                     max_image_dimension : {1, DefaultMaxDimension}]
    /\ i_image = Pending
    /\ i_result = Pending
    /\ i_direct = Pending
    /\ i_trace = <<>>

\* ImageLoader.load, called directly
LoadImage ==
    /\ i_image = Pending
    /\ i_image' = ImageLoaderLoad(i_file, i_fault)
    /\ UNCHANGED <<nonimage, i_file, i_fault, i_config, i_result, i_direct, i_trace>>

\* CVDSimulator.simulate on the loaded image
Simulate ==
    /\ i_image.kind = "Image"
    /\ i_result = Pending
    /\ \E type \in Range(CVDType), outcome \in {"ok", "raise"} :
          i_result' = [type |-> type, out |-> simulate(i_image, type, outcome)]
    /\ UNCHANGED <<nonimage, i_file, i_fault, i_config, i_image, i_direct, i_trace>>

\* CVDSimulator.process_image, called directly: what it raises, or its results
ProcessImageDirect ==
    /\ i_direct = Pending
    /\ LET r == process_image(i_file, i_fault, 0)
       IN  i_direct' = IF "error" \in DOMAIN r THEN r.error
                       ELSE [kind |-> "results", results |-> r.results]
    /\ i_trace' = ProcessImageTrace(i_file, i_fault)
    /\ UNCHANGED <<nonimage, i_file, i_fault, i_config, i_image, i_result>>

ImageNext == LoadImage \/ Simulate \/ ProcessImageDirect

\* ------------------------------------------------------- specifications
\* the parts of the state a specification leaves alone
BatchOff ==
    /\ image_paths = <<>> /\ fate = <<>> /\ cvd_type = NoneVal /\ chunk_size = 1
    /\ max_workers = 1 /\ progress_callback = FALSE /\ now = 0 /\ mode = "none"
    /\ pc = "off" /\ idx = 0 /\ ci = 0 /\ cur = <<1, 0>> /\ futures = <<>>
    /\ results = EmptyMap /\ failed = <<>> /\ success_count = 0 /\ completed = 0
    /\ all_results = EmptyMap /\ calls = <<>> /\ nwrites = ZeroWrites
    /\ ret = [m \in Modes |-> NoRet]
ValidateOff ==
    /\ v_args = [max_file_size |-> 1, max_dimension |-> 1, allowed_formats |-> {}]
    /\ v_file = GoodFile /\ v_self = [error |-> "off"] /\ v_result = "off"
PathOff ==
    /\ s_dir = <<>> /\ s_name = <<>> /\ s_links = NoLinks /\ s_out = [kind |-> "off"]
    /\ s_safe = <<>>
WorkersOff ==
    /\ w_arg = Nothing /\ w_config = Nothing /\ w_cpus = 1 /\ w_total = 0
    /\ w_mem = 0 /\ w_self = Some(0) /\ w_pool = [kind |-> "off"] /\ w_optimal = Some(0)
ImageOff ==
    /\ i_file = [kind |-> "off"] /\ i_fault = [kind |-> "off"]
    /\ i_config = [kind |-> "off"] /\ i_image = [kind |-> "off"]
    /\ i_result = [kind |-> "off"] /\ i_direct = [kind |-> "off"]
    /\ i_trace = <<>>
MetadataOff ==
    /\ m_record = [kind |-> "off"] /\ m_file = [kind |-> "off"]
    /\ m_loaded = [kind |-> "off"]
CliOff ==
    /\ PRESETS = InitialPresets /\ l_parsed = DefaultArgs /\ l_pc = "off"
    /\ l_config = [kind |-> "none"] /\ l_idx = 0 /\ l_success = 0
    /\ l_outcomes = <<>> /\ l_exit = [kind |-> "none"] /\ l_applied = [kind |-> "none"]
    /\ l_profiler = [enabled |-> TRUE, timings |-> {}] /\ l_timed = {}
ConfigOff ==
    /\ c_args = DefaultConfig /\ c_config = [kind |-> "off"]
    /\ c_settings = [kind |-> "off"]
    /\ c_dict = [kind |-> "off"] /\ c_worker = [kind |-> "off"]

Init == BatchInit /\ ValidateOff /\ PathOff /\ WorkersOff /\ ConfigOff /\ CliOff /\ MetadataOff /\ ImageOff
Next == BatchNext
Spec == Init /\ [][Next]_vars

\* process_batch_parallel called directly; every unit taken by a worker
\* completes or fails, and the coordinator's loop is not suspended for ever
NextLive ==
    \/ CallParallel
    \/ \E i \in 1..(MaxImages + 1) : WorkerTake(i)
    \/ \E i \in 1..(MaxImages + 1) : WorkerFinish(i)
    \/ \E i \in 1..(MaxImages + 1) : WorkerCrash(i)
    \/ \E i \in 1..(MaxImages + 1) : Collect(i)
    \/ Finalize
Fairness ==
    /\ \A i \in 1..(MaxImages + 1) : WF_vars(WorkerTake(i))
    /\ \A i \in 1..(MaxImages + 1) : WF_vars(WorkerFinish(i) \/ WorkerCrash(i))
    /\ \A i \in 1..(MaxImages + 1) : WF_vars(Collect(i))
    /\ WF_vars(Finalize)
InitLive == Init /\ cvd_type = NoneVal
SpecLive == InitLive /\ [][NextLive]_vars /\ Fairness

InitValidate == ValidateInit /\ BatchOff /\ PathOff /\ WorkersOff /\ ConfigOff /\ CliOff /\ MetadataOff /\ ImageOff
NextValidate == ValidateNext
SpecValidate == InitValidate /\ [][NextValidate]_vars

InitPath == PathInit /\ BatchOff /\ ValidateOff /\ WorkersOff /\ ConfigOff /\ CliOff /\ MetadataOff /\ ImageOff
NextPath == PathNext
SpecPath == InitPath /\ [][NextPath]_vars

InitWorkers == WorkersInit /\ BatchOff /\ ValidateOff /\ PathOff /\ ConfigOff /\ CliOff /\ MetadataOff /\ ImageOff
NextWorkers == WorkersNext
SpecWorkers == InitWorkers /\ [][NextWorkers]_vars

InitConfig == ConfigInit /\ BatchOff /\ ValidateOff /\ PathOff /\ WorkersOff /\ CliOff /\ MetadataOff /\ ImageOff
NextConfig == ConfigNext
SpecConfig == InitConfig /\ [][NextConfig]_vars

InitCli == CliInit /\ BatchOff /\ ValidateOff /\ PathOff /\ WorkersOff /\ ConfigOff /\ MetadataOff /\ ImageOff
NextCli == CliNext
SpecCli == InitCli /\ [][NextCli]_vars

InitMetadata ==
    MetadataInit /\ BatchOff /\ ValidateOff /\ PathOff /\ WorkersOff /\ ConfigOff /\ CliOff
    /\ ImageOff
NextMetadata == MetadataNext
SpecMetadata == InitMetadata /\ [][NextMetadata]_vars

InitImage ==
    ImageInit /\ BatchOff /\ ValidateOff /\ PathOff /\ WorkersOff /\ ConfigOff /\ CliOff
    /\ MetadataOff
NextImage == ImageNext
SpecImage == InitImage /\ [][NextImage]_vars

\* ================================================================= claims
\* entry point m has ended and nothing was called after it
Finished(m) == pc = "idle" /\ mode = m
InputSet == Range(image_paths)
AllSucceed == \A i \in DOMAIN image_paths : fate[i]
AllFail == \A i \in DOMAIN image_paths : ~fate[i]
UnitsOf(p) == {i \in DOMAIN image_paths : image_paths[i] = p}
AllTypes == Range(CVDType)

\* what a successful unit of entry point m records for its path
IsOutput(m, e) ==
    IF m = "batch" \/ cvd_type = NoneVal
    THEN e.tag = "dict" /\ DOMAIN e.val = AllTypes
    ELSE e.tag = "path" /\ e.val.name_base = CVDTypeValue(cvd_type)

\* C1: for N distinct input paths whose units all succeed, process_batch,
\* process_batch_parallel and process_batch_chunked each return a mapping with
\* exactly N keys, one per input path, for every worker count and chunk size.
C1_OneKeyPerPath ==
    \A m \in Modes :
        (Finished(m) /\ Distinct(image_paths) /\ AllSucceed) =>
            /\ ret[m].kind = "return"
            /\ DOMAIN ret[m].value = InputSet
            /\ Cardinality(DOMAIN ret[m].value) = N

C1_Witness ==
    /\ Finished("chunked") /\ Distinct(image_paths) /\ AllSucceed
    /\ N >= 2 /\ chunk_size < N /\ max_workers >= 2
    /\ Cardinality(DOMAIN ret["chunked"].value) = N

\* C2: when at least one of the N >= 1 units succeeds, process_batch and
\* process_batch_parallel return normally; a path whose units succeeded maps
\* to its outputs and a path whose units failed maps to None, whichever units
\* fail and in whatever order they complete.
C2_PartialFailureReturns ==
    \A m \in {"batch", "parallel"} :
        (Finished(m) /\ N >= 1 /\ ~AllFail) =>
            /\ ret[m].kind = "return"
            /\ \A p \in InputSet :
                /\ p \in DOMAIN ret[m].value
                /\ (\A i \in UnitsOf(p) : fate[i]) => IsOutput(m, ret[m].value[p])
                /\ (\A i \in UnitsOf(p) : ~fate[i]) => ret[m].value[p] = None

C2_Witness ==
    /\ Finished("parallel") /\ ret["parallel"].kind = "return"
    /\ \E p, q \in InputSet :
        /\ ret["parallel"].value[p] = None
        /\ ret["parallel"].value[q] # None
    /\ failed # <<>>

\* C3: when all units of N >= 1 distinct input paths fail, process_batch and
\* process_batch_parallel raise BatchProcessingError with success_count = 0
\* and failed_items holding exactly the N input paths.
C3_AllFailedRaises ==
    \A m \in {"batch", "parallel"} :
        (Finished(m) /\ N >= 1 /\ Distinct(image_paths) /\ AllFail) =>
            /\ ret[m].kind = "raise"
            /\ ret[m].success_count = 0
            /\ Len(ret[m].failed_items) = N
            /\ Range(ret[m].failed_items) = InputSet

C3_Witness ==
    /\ Finished("parallel") /\ N >= 2 /\ Distinct(image_paths) /\ AllFail
    /\ ret["parallel"].kind = "raise"
    /\ Len(ret["parallel"].failed_items) = N

\* the outcome of a call, without the timestamps of the output paths
Shape(r) ==
    IF r.kind = "return"
    THEN [kind |-> "return", value |-> [p \in DOMAIN r.value |-> r.value[p].tag]]
    ELSE [kind |-> r.kind, failed_items |-> Range(r.failed_items),
          count |-> Len(r.failed_items)]

\* C4: process_batch_chunked ends as process_batch_parallel does on the same
\* list and the same pattern of success and failure: the same mapping when the
\* unchunked run returns, the same aggregate failure with the same failed
\* paths when it raises.
C4_ChunkingHasNoEffect ==
    (Finished("chunked") /\ ret["parallel"] # NoRet /\ Distinct(image_paths)) =>
        Shape(ret["chunked"]) = Shape(ret["parallel"])

\* every entry a mapping holds
Entries(m) == {m[p] : p \in DOMAIN m}
WholeOrNone(e) == e = None \/ (e.tag = "dict" /\ DOMAIN e.val = AllTypes)

\* C5: when all deficiency types are requested, every entry of a result
\* mapping is None or holds all four types, at every moment of a run and
\* whatever step of a unit failed; no entry holds only some of the types.
C5_AllOrNothing ==
    (mode = "batch" \/ cvd_type = NoneVal) =>
        /\ \A e \in Entries(results) \cup Entries(all_results) : WholeOrNone(e)
        /\ \A i \in DOMAIN futures : WholeOrNone(futures[i].res)
        /\ \A m \in Modes :
            ret[m].kind = "return" => \A e \in Entries(ret[m].value) : WholeOrNone(e)

C5_Witness ==
    /\ Finished("parallel") /\ cvd_type = NoneVal
    /\ ret["parallel"].kind = "return"
    /\ \E p, q \in InputSet :
        /\ ret["parallel"].value[p] = None
        /\ ret["parallel"].value[q].tag = "dict"
        /\ DOMAIN ret["parallel"].value[q].val = AllTypes

\* C6: in a run of process_batch or process_batch_parallel the entry of each
\* input path is assigned exactly once and never again, and the final mapping
\* holds one entry per distinct input path, also when a path occurs more than
\* once in the list.
C6_EntryWrittenOnce ==
    mode \in {"batch", "parallel"} =>
        /\ \A p \in Paths : nwrites[p] <= 1
        /\ (pc = "idle" /\ ret[mode].kind = "return") =>
            /\ DOMAIN ret[mode].value = InputSet
            /\ \A p \in InputSet : nwrites[p] = 1

\* C7 as the specification states it: config.max_workers first, then the
\* argument, then the CPU count, clamped to the number of paths and to 1.
ClaimedWorkers ==
    LET chosen == IF w_config # Nothing THEN w_config[1]
                  ELSE IF w_arg # Nothing THEN w_arg[1]
                  ELSE w_cpus
    IN  Max(1, Min(chosen, w_total))

C7_ConfigFirstClamped ==
    w_pool.kind = "pool" => w_pool.max_workers = ClaimedWorkers

\* C7, amended: the number of workers is the max_workers argument when it is
\* given and not 0, otherwise config.max_workers when set, otherwise the CPU
\* count; it is at least 1 unless a negative argument is given, in which case
\* the pool is refused; it is handed to the pool as it is, not clamped to the
\* number of input paths.
ChosenWorkers ==
    IF w_arg # Nothing /\ w_arg[1] # 0 THEN w_arg[1]
    ELSE IF w_config # Nothing THEN w_config[1]
    ELSE w_cpus

C7_ArgumentFirstUnclamped ==
    /\ w_self \notin {Nothing, Some(0)} => w_self[1] = ChosenWorkers
    /\ (w_arg = Nothing \/ w_arg[1] >= 0) => ChosenWorkers >= 1
    /\ w_pool.kind = "pool" => w_pool.max_workers = ChosenWorkers
    /\ w_pool.kind = "ValueError" => ChosenWorkers < 1
    /\ w_pool.kind = "no pool" => w_total = 0

C7_Witness ==
    /\ w_pool.kind = "pool"
    /\ w_arg # Nothing /\ w_config # Nothing /\ w_arg[1] > w_config[1]
    /\ w_pool.max_workers = w_arg[1]
    /\ w_pool.max_workers > w_total

\* C8: process_batch_parallel with a progress callback calls it once after
\* each unit, succeeded or failed, with (k, N) for k = 1, 2, ..., N in this
\* order: N calls in all, the last one (N, N).
C8_ProgressCalls ==
    (mode = "parallel" /\ progress_callback) =>
        /\ calls = [k \in 1..completed |-> <<k, N>>]
        /\ pc = "idle" => Len(calls) = N

C8_Witness ==
    /\ Finished("parallel") /\ progress_callback
    /\ N >= 2 /\ ~AllSucceed /\ ~AllFail
    /\ calls[Len(calls)] = <<N, N>>

\* path p is dir or lies below it
Inside(p, dir) == Len(p) >= Len(dir) /\ \A i \in 1..Len(dir) : p[i] = dir[i]
Contains(str, c) == \E i \in DOMAIN str : str[i] = c

\* C9: for every base directory and file name, sanitize_output_path raises
\* SecurityError(PATH_TRAVERSAL) or returns a path that is not outside the
\* resolved base directory.
C9_NeverOutsideBase ==
    s_out.kind \notin {"pending", "off"} =>
        \/ s_out.kind = "SecurityError" /\ s_out.violation_type = "PATH_TRAVERSAL"
        \/ s_out.kind = "return" /\ Inside(s_out.path, Resolve(s_dir, s_links))

C9_Witness ==
    /\ s_out.kind = "return"
    /\ StartsWith(s_name, <<".", ".", "/">>)
    /\ s_dir # <<>>
    /\ Inside(s_out.path, Resolve(s_dir, s_links))

\* the checks of validate_image in the order the specification lists them,
\* each with its violation type and whether file f fails it
ListedChecks(self, f) ==
    << <<"FILE_NOT_FOUND", ~f.exists>>,
       <<"NOT_A_FILE", ~f.is_file>>,
       <<"FILE_TOO_LARGE", f.size > self.max_file_size>>,
       <<"EMPTY_FILE", f.size = 0>>,
       <<"UNKNOWN_FORMAT", ~f.opens \/ f.format = NoneVal>>,
       <<"DISALLOWED_FORMAT", f.format \notin self.allowed_formats>>,
       <<"CORRUPTED_FILE", ~f.verifies>>,
       <<"DIMENSIONS_TOO_LARGE",
         f.width > self.max_dimension \/ f.height > self.max_dimension>> >>

EarliestFailing(self, f) ==
    LET checks == ListedChecks(self, f)
        failing == {k \in DOMAIN checks : checks[k][2]}
    IN  IF failing = {} THEN "OK"
        ELSE checks[CHOOSE k \in failing : \A j \in failing : k <= j][1]

\* C10: validate_image reports the violation type of the earliest check the
\* file fails, in the order FILE_NOT_FOUND, NOT_A_FILE, FILE_TOO_LARGE,
\* EMPTY_FILE, UNKNOWN_FORMAT, DISALLOWED_FORMAT, CORRUPTED_FILE,
\* DIMENSIONS_TOO_LARGE; an over-size image that is not corrupted is reported
\* as DIMENSIONS_TOO_LARGE; a file that passes every check raises nothing.
C10_EarliestCheckReported ==
    v_result \notin {"pending", "off"} =>
        v_result = EarliestFailing(v_self, v_file)

C10_Witness ==
    /\ v_result = "DIMENSIONS_TOO_LARGE"
    /\ v_file.verifies
    /\ v_file.width > v_self.max_dimension

\* every field of c is in its range
InRange(c) ==
    /\ ~c.severity.nan /\ c.severity.tenths \in 0..One
    /\ c.quality \in QUALITY_MIN..QUALITY_MAX
    /\ c.output_directory.is_path
    /\ c.max_workers = Nothing \/ c.max_workers[1] >= 1
    /\ c.max_image_size >= 1
    /\ c.max_image_dimension >= 1

\* C11: SimulationConfig(...) raises ValidationError and yields no instance
\* when any of severity, quality, output_directory, max_workers,
\* max_image_size or max_image_dimension is out of range, whatever the other
\* fields are; when every field is in range it yields an instance holding the
\* given values.
C11_ConstructionAtomic ==
    c_config.kind \notin {"pending", "off"} =>
        IF InRange(c_args)
        THEN c_config.kind = "instance" /\ c_config.config = c_args
        ELSE c_config.kind = "ValidationError" /\ "config" \notin DOMAIN c_config

C11_Witness ==
    /\ c_config.kind = "ValidationError"
    /\ c_config.field = "max_image_dimension"
    /\ c_args.severity = Float(8) /\ c_args.quality = QUALITY_MAX
    /\ c_args.max_image_size >= 1

Lossy == {"JPEG", "WEBP"}
Lossless == {"PNG", "TIFF", "BMP"}
SettingsDerived == c_settings \notin {[kind |-> "pending"], [kind |-> "off"]}

\* C16 as the specification states it: a lossy format carries the quality
\* parameter and the optimize flag, a lossless format carries the optimize
\* flag and no quality parameter.
C16_LossyAndLosslessOptions ==
    SettingsDerived =>
        LET fmt == c_config.config.output_format
        IN  /\ "optimize" \in DOMAIN c_settings
            /\ ("quality" \in DOMAIN c_settings) = (fmt \in Lossy)

\* C16, amended: the options are the PIL format name and, for JPEG, the
\* configured quality and optimize flag; for PNG, the optimize flag only; for
\* WEBP, the configured quality and method 6, without an optimize flag; for
\* TIFF and BMP, nothing else.  A lossy format always carries the quality and
\* a lossless one never does.
C16_OptionsByFormat ==
    SettingsDerived =>
        LET cfg == c_config.config
            fmt == cfg.output_format
            keys == DOMAIN c_settings
        IN  /\ c_settings.format = fmt
            /\ keys = CASE fmt = "JPEG" -> {"format", "quality", "optimize"}
                         [] fmt = "PNG" -> {"format", "optimize"}
                         [] fmt = "WEBP" -> {"format", "quality", "method"}
                         [] fmt \in {"TIFF", "BMP"} -> {"format"}
            /\ "quality" \in keys => c_settings.quality = cfg.quality
            /\ "optimize" \in keys => c_settings.optimize = cfg.optimize
            /\ "method" \in keys => c_settings.method = 6
            /\ ("quality" \in keys) = (fmt \in Lossy)

C16_Witness ==
    /\ SettingsDerived
    /\ c_config.config.output_format = "WEBP"
    /\ c_config.config.optimize
    /\ "quality" \in DOMAIN c_settings
    /\ "optimize" \notin DOMAIN c_settings

\* a call of main has ended
Ended == l_pc = "idle" /\ l_exit.kind = "exit"
ListOption == l_parsed.list_algorithms \/ l_parsed.list_types \/ l_parsed.list_presets
\* at least one input path was given and every one was processed successfully
AllProcessed ==
    /\ l_parsed.images # <<>>
    /\ Len(l_outcomes) = Len(l_parsed.images)
    /\ \A i \in DOMAIN l_outcomes : l_outcomes[i] = 1

\* C12 as the specification states it: main ends with exit code 0 if and only
\* if every input path given was processed successfully, and with 1 in every
\* other case, also when no input path is given.
C12_ExitZeroIffAllSucceeded ==
    Ended => l_exit.code = (IF AllProcessed THEN 0 ELSE 1)

\* C12, amended: a run with a list option ends with 0 and processes nothing;
\* otherwise a run without input paths ends in the parser's error, exit
\* status 2; otherwise the exit code is 0 if and only if every input path was
\* processed successfully and 1 in every other case, also when the
\* configuration is invalid or the simulator cannot be created.
C12_ExitCodes ==
    Ended =>
        IF ListOption THEN l_exit.code = 0 /\ l_outcomes = <<>>
        ELSE IF l_parsed.images = <<>> THEN l_exit.code = 2 /\ l_outcomes = <<>>
        ELSE /\ l_exit.code = (IF AllProcessed THEN 0 ELSE 1)
             /\ (l_parsed.preset = NoneVal /\ ~InRange([DefaultConfig EXCEPT
                                                    !.severity = l_parsed.severity]))
                   => l_exit.code = 1 /\ l_outcomes = <<>>

C12_Witness ==
    /\ Ended /\ ~ListOption
    /\ Len(l_parsed.images) >= 2
    /\ l_outcomes = <<1, 0>>
    /\ l_exit.code = 1

\* C13: using a preset never modifies the preset table: after any sequence of
\* apply_preset calls with an output_directory override and of runs of main
\* with --preset and -o, every PresetType still maps to its initial config.
C13_PresetTableUnchanged ==
    l_pc # "off" => PRESETS = InitialPresets

Loaded == "version" \in DOMAIN m_loaded
\* every value of the record's dicts is a value json encodes as itself
JsonValue(x) ==
    /\ x.t \in {"str", "int", "float", "bool", "NoneType", "list"}
    /\ x.t = "list" =>
          \A i \in DOMAIN x.v : x.v[i].t \in {"str", "int", "float", "bool", "NoneType"}
JsonRecord(r) ==
    \A f \in {"output_files", "config", "system_info"} :
        \A k \in DOMAIN r[f] : JsonValue(r[f][k])

\* C17 as the specification states it: for every SimulationMetadata record,
\* load_metadata of the file export_metadata wrote gives a record equal to it
\* in every field.
C17_RoundTripEveryRecord ==
    Loaded => m_loaded = m_record

\* C17, amended: the round trip gives back an equal record when the values of
\* its dicts are values json encodes as themselves (strings, numbers,
\* booleans, None and lists of these), as in every record create_metadata
\* builds; the fields other than config come back equal in any case.
C17_RoundTripJsonRecords ==
    Loaded =>
        /\ JsonRecord(m_record) => m_loaded = m_record
        /\ \A f \in DOMAIN m_record \ {"config"} : m_loaded[f] = m_record[f]

C17_Witness ==
    /\ Loaded /\ JsonRecord(m_record)
    /\ m_record.notes = PyStr("n")
    /\ DOMAIN m_record.config = {"quality", "output_directory"}
    /\ m_record.config["quality"] = PyInt(1)
    /\ m_record.config["output_directory"] = PyNone
    /\ m_loaded = m_record

\* the violation the default validator finds in the file, or "OK"
Violation == validate_image(SecurityValidator(DefaultMaxFileSize, DefaultMaxDimension, {}), i_file)

\* C18: when the validation step of ImageLoader.load fails, the caller of load,
\* and the caller of process_image called directly, receives that SecurityError
\* with its violation_type and not an error of another kind.
C18_SecurityErrorUnmodified ==
    Violation # "OK" =>
        /\ i_image # Pending => i_image = SecurityError(Violation)
        /\ i_direct # Pending => i_direct = SecurityError(Violation)

\* C19: for every algorithm, every severity in [0,1] and every deficiency
\* type, GRAYSCALE included, an image that simulate returns has the width and
\* the height of its input and is in RGB mode.
C19_SameSizeRGB ==
    (i_result # Pending /\ i_result.out.kind = "Image") =>
        /\ i_result.out.width = i_image.width
        /\ i_result.out.height = i_image.height
        /\ i_result.out.mode = "RGB"

C19_Witness ==
    /\ i_result # Pending /\ i_result.type = "GRAYSCALE"
    /\ i_file.mode = "RGBA" /\ i_file.width = 2 /\ i_file.height = 3
    /\ i_config.algorithm = "AUTO" /\ i_config.severity = Float(One)
    /\ i_result.out = Image(2, 3, "RGB")

\* C14: called with an empty input list, process_batch, process_batch_parallel
\* and process_batch_chunked return an empty mapping: no BatchProcessingError
\* is raised, no worker pool is created and no unit of work is submitted.
C14_EmptyInputReturnsEmpty ==
    image_paths = <<>> =>
        /\ pc = "idle"
        /\ futures = <<>>
        /\ \A m \in Modes : ret[m] \in {NoRet, Return(EmptyMap)}
        /\ mode # "none" => ret[mode] = Return(EmptyMap)

C14_Witness ==
    /\ image_paths = <<>>
    /\ ret["parallel"] = Return(EmptyMap)
    /\ ret["chunked"] = Return(EmptyMap)
    /\ futures = <<>> /\ pc = "idle"

\* C20: process_batch_parallel leaves the collecting phase only once all N
\* submitted units have completed and been recorded: while a unit is
\* outstanding it has neither returned nor raised, and whether it returns or
\* raises the aggregate failure is decided on the counts of all N units.
C20_CollectsAllBeforeDeciding ==
    mode = "parallel" =>
        /\ pc = "collect" => ret["parallel"] = NoRet
        /\ (ret["parallel"] # NoRet /\ N > 0) =>
              /\ DOMAIN futures = DOMAIN image_paths
              /\ \A i \in DOMAIN futures : futures[i].st = "collected"
              /\ completed = N
              /\ success_count + Len(failed) = N
              /\ success_count = Cardinality({i \in DOMAIN image_paths : fate[i]})
              /\ ret["parallel"].kind = "raise" <=> success_count = 0

C20_Witness ==
    /\ Finished("parallel") /\ N = MaxImages /\ max_workers = 1
    /\ ~fate[1] /\ fate[N]
    /\ completed = N /\ success_count = 1
    /\ ret["parallel"].kind = "return"

\* a result of sanitize_filename is a file name safe to use: not empty, made
\* of allow-list characters, with no separator, null byte or ".." in it
SafeName(r) ==
    /\ r # <<>>
    /\ \A i \in DOMAIN r : r[i] \in SAFE_CHARS /\ r[i] \notin {"/", "\\", "NUL"}
    /\ \A i \in 1..(Len(r) - 1) : ~(r[i] = "." /\ r[i + 1] = ".")

LastUnit(p) == CHOOSE i \in UnitsOf(p) : \A j \in UnitsOf(p) : j <= i
InOrderMapping == [p \in InputSet |-> futures[LastUnit(p)].res]

\* C21: for a fixed input list and fixed results of the units, the mapping
\* process_batch_parallel returns is the same in every completion order, and
\* so equal to the mapping of the run whose units complete in list order.
C21_OrderIndependentMapping ==
    (Finished("parallel") /\ ret["parallel"].kind = "return" /\ N > 0) =>
        ret["parallel"].value = InOrderMapping

\* the units in flight: submitted and not yet through the collection loop
InFlight == {i \in DOMAIN futures : futures[i].st # "collected"}

\* C22: in process_batch_chunked all units in flight belong to the chunk being
\* collected and are at most chunk_size, and when the next chunk is about to
\* be submitted no unit of an earlier chunk is left in flight.
C22_OneChunkAtATime ==
    mode = "chunked" =>
        /\ pc = "collect" =>
              /\ cur = Chunks(N, chunk_size)[ci]
              /\ DOMAIN futures = cur[1]..cur[2]
              /\ Cardinality(DOMAIN futures) <= chunk_size
        /\ pc # "collect" => InFlight = {}

C22_Witness ==
    /\ mode = "chunked" /\ pc = "collect" /\ N = MaxImages /\ chunk_size = 1
    /\ ci = 2 /\ cur = <<2, 2>> /\ InFlight = {2}
    /\ DOMAIN all_results = {image_paths[1]}

\* C28: in a run of process_batch or process_batch_parallel success_count plus
\* the length of failed is the number of units completed so far, N at the
\* end; success_count is the number of entries that are not None and failed
\* holds exactly the paths whose entry is None.
C28_CountsMatchMapping ==
    mode \in {"batch", "parallel"} =>
        /\ success_count + Len(failed) = completed
        /\ pc = "idle" => completed = N
        /\ success_count = Cardinality({p \in DOMAIN results : results[p] # None})
        /\ Range(failed) = {p \in DOMAIN results : results[p] = None}
        /\ Distinct(failed)

\* the output files an entry of the mapping names
OutputsOf(e) ==
    IF e = None THEN {}
    ELSE IF e.tag = "dict" THEN {e.val[t] : t \in DOMAIN e.val}
    ELSE {e.val}

\* C29: in a run of process_batch or process_batch_parallel the output files
\* recorded for two different input paths are disjoint, whatever the timing.
C29_OutputsDisjoint ==
    mode \in {"batch", "parallel"} =>
        \A p, q \in DOMAIN results :
            p # q => OutputsOf(results[p]) \cap OutputsOf(results[q]) = {}

\* C27: provided every unit completes or fails, a process_batch_parallel run
\* ends by returning the mapping or raising the aggregate failure, and a unit
\* that has completed can be recorded at once, whatever units still run.
C27_Terminates ==
    /\ (mode = "parallel") ~> (pc = "idle" /\ ret["parallel"] # NoRet)
    /\ [](\A i \in 1..(MaxImages + 1) :
            (pc = "collect" /\ i \in DOMAIN futures
                /\ futures[i].st \in {"done", "exception"}) => ENABLED Collect(i))

C27_Witness ==
    /\ mode = "parallel" /\ pc = "collect" /\ N = MaxImages
    /\ futures[1].st = "running" /\ futures[N].st = "collected"

\* C26: a path sanitize_output_path returns is a proper descendant of the
\* resolved base directory: inside it and not the base directory itself.
C26_ProperDescendant ==
    s_out.kind = "return" =>
        /\ Inside(s_out.path, Resolve(s_dir, s_links))
        /\ s_out.path # Resolve(s_dir, s_links)

\* the file is larger than the configuration allows
OverConfigLimits ==
    \/ i_file.size > i_config.max_image_size
    \/ i_file.width > i_config.max_image_dimension
    \/ i_file.height > i_config.max_image_dimension

\* C24: an input whose file size exceeds config.max_image_size, or whose width
\* or height exceeds config.max_image_dimension, is rejected by
\* CVDSimulator.process_image, for every valid configuration.
C24_ConfigLimitsEnforced ==
    (i_direct # Pending /\ OverConfigLimits) => i_direct.kind # "results"

ValidatorHandles == {"fmt", "img", "img2"}
\* the validator's handles open after the first k steps of the trace
OpenAfter(tr, k) ==
    {h \in ValidatorHandles :
        Cardinality({j \in 1..k : tr[j] = Ev("open", h)})
            > Cardinality({j \in 1..k : tr[j] = Ev("close", h)})}
Processing(e) == e.handle \notin ValidatorHandles

\* C23: in a unit of work the file is opened for processing only after its
\* validation has completed successfully, with every handle of the validator
\* closed by then; a path that fails validation is never opened for
\* processing, simulated or written.
C23_ValidatedBeforeOpened ==
    i_direct # Pending =>
        /\ Violation # "OK" => \A k \in DOMAIN i_trace : ~Processing(i_trace[k])
        /\ \A k \in DOMAIN i_trace :
              Processing(i_trace[k]) =>
                /\ OpenAfter(i_trace, k) = {}
                /\ \A j \in DOMAIN i_trace : j > k => Processing(i_trace[j])
                /\ \E j \in 1..k : i_trace[j] = Ev("size", "img2")

C23_Witness ==
    /\ i_direct # Pending /\ i_direct.kind = "results"
    /\ i_file.mode = "L"
    /\ Len(i_trace) = 18
    /\ i_trace[9] = Ev("open", "image") /\ i_trace[10] = Ev("convert", "image")

\* C25: the configuration a worker builds with from_dict from the dictionary
\* to_dict gave the coordinator is an instance equal to the coordinator's in
\* every field, and from_dict leaves that dictionary as it was.
C25_ConfigRoundTrip ==
    c_worker.kind \notin {"off", "pending"} =>
        /\ c_worker.kind = "instance"
        /\ \A k \in DOMAIN DefaultConfig : c_worker.config[k] = c_config.config[k]
        /\ c_dict.dict = to_dict(c_config.config)

C25_Witness ==
    /\ c_worker.kind = "instance"
    /\ c_config.config.output_directory = PathValue(<<>>)
    /\ c_config.config.output_format = "JPEG"
    /\ c_config.config.max_workers = Nothing
    /\ c_dict.dict.output_directory = PyStr(<<".">>)

\* a call of main that got as far as the loop over the images
InProcessing == l_pc = "process" \/ (l_pc = "idle" /\ l_outcomes # <<>>)

\* C30: in any sequence of calls of main, a run with --profile has the
\* profiler enabled and records a timing for the operations it times, and a
\* run without --profile records none, whatever the runs before it were.
C30_ProfileDoesNotLeak ==
    InProcessing =>
        /\ l_parsed.profile => l_profiler.enabled
        /\ l_parsed.profile /\ l_parsed.type # NoneVal /\ l_outcomes # <<>> => l_timed # {}
        /\ ~l_parsed.profile => l_timed = {}
====
